---- MODULE Spec2Model ----
(***************************************************************************)
(* Transcription, subtitle synthesis, block-format serialisation/parsing,   *)
(* timeline validation and LLM enhancement of baobao-lyrics                *)
(* (baobao/transcribe.py, scripts/validate_timing.py, baobao/enhance.py).  *)
(*                                                                         *)
(* Text is a sequence of one-character strings.  Times are integers in     *)
(* ticks, SubMs ticks to the millisecond, so that a time can lie strictly  *)
(* between two milliseconds as a float number of seconds can.              *)
(***************************************************************************)
EXTENDS Integers, Sequences, FiniteSets, TLC

VARIABLES
    pc,             \* position in the run
    seconds,        \* argument of _format_srt_time
    time_str,       \* its result
    decoded,        \* result of parse_srt_time(time_str)
    segments,       \* list[LyricSegment] handed to save_srt
    word_highlight, \* save_srt's flag
    f,              \* the f.write calls of save_srt, one (idx, start, end, text) each
    file_blocks,    \* the blocks a subtitle file given to parse_srt is made of
    content,        \* the subtitle file's text
    entries,        \* parse_srt's result, validate_format's argument
    argv,           \* the words after --expected on main's command line, if any
    expected_words, \* validate_format's optional list of expected words
    results,        \* validate_format's report
    shown,          \* the overlap amounts main prints for the report
    reachable,      \* whether Ollama answers and lists the model
    output_format,  \* EnhanceConfig.output_format of the ChineseEnhancer
    _cache,         \* ChineseEnhancer._cache
    calls,          \* the calls of client.create in order: the phrase and what came of it
    unique_phrases, \* enhance_srt's set of cleaned texts
    todo,           \* the phrases `for phrase in unique_phrases` has yet to reach
    enhanced_entries, \* enhance_srt's list of output entries
    output,         \* the file enhance_srt writes
    returned,       \* what the last direct call of a ChineseEnhancer method returned
    srt_path,       \* enhance_srt's argument: the path of the input file
    output_path,    \* enhance_srt's argument: the path of the output file, or None
    config,         \* Transcriber.config: refine_timestamps and word_level
    _model,         \* Transcriber._model
    audio_exists,   \* whether the audio path given to transcribe exists
    asr_calls,      \* the calls of the ASR model's methods, in order
    lrc             \* the f.write calls of save_lrc, one line each

vars == <<pc, seconds, time_str, decoded, segments, word_highlight, f, file_blocks, content,
          entries, argv, expected_words, results, shown, reachable, output_format, _cache,
          calls, unique_phrases, todo, enhanced_entries, output, returned,
          srt_path, output_path, config, _model, audio_exists, asr_calls, lrc>>

codecVars == <<seconds, time_str, decoded>>
srtVars == <<segments, word_highlight, f, file_blocks, content, entries>>
validateVars == <<argv, expected_words, results, shown>>
transcriberVars == <<config, _model, audio_exists, asr_calls, lrc>>
enhanceVars == <<reachable, output_format, _cache, calls, unique_phrases, todo,
                 enhanced_entries, output, returned, srt_path, output_path>>

(***************************************************************************)
(* Bounds of the model.                                                    *)
(***************************************************************************)
SubMs == 4          \* ticks per millisecond
MaxSegs == 2        \* segments per save_srt call
MaxBlocks == 3      \* blocks of a subtitle file given to parse_srt
MaxEntries == 4     \* entries given to validate_format

TicksPerSec == 1000 * SubMs

Fail == -1          \* an exception raised by int(), float() or an index

Min(S) == CHOOSE x \in S : \A y \in S : x <= y
Max(S) == CHOOSE x \in S : \A y \in S : x >= y

(***************************************************************************)
(* Python string operations, on sequences of characters.                   *)
(***************************************************************************)
IsSpace(c) == c \in {" ", "\n"}

\* str.strip()
Strip(s) ==
    IF \A i \in 1..Len(s) : IsSpace(s[i]) THEN <<>>
    ELSE LET first == CHOOSE i \in 1..Len(s) :
                          ~IsSpace(s[i]) /\ \A j \in 1..(i - 1) : IsSpace(s[j])
             last == CHOOSE i \in 1..Len(s) :
                         ~IsSpace(s[i]) /\ \A j \in (i + 1)..Len(s) : IsSpace(s[j])
         IN  SubSeq(s, first, last)

\* str.find(pat, from) with 1-based positions; 0 when absent
Find(s, pat, from) ==
    LET hits == {i \in from..(Len(s) - Len(pat) + 1) :
                     SubSeq(s, i, i + Len(pat) - 1) = pat}
    IN  IF hits = {} THEN 0 ELSE Min(hits)

\* str.replace(old, new, 1), old non-empty
Replace1(s, old, new) ==
    LET i == Find(s, old, 1)
    IN  IF i = 0 THEN s
        ELSE SubSeq(s, 1, i - 1) \o new \o SubSeq(s, i + Len(old), Len(s))

\* str.replace(old, new), old non-empty
RECURSIVE ReplaceAll(_, _, _)
ReplaceAll(s, old, new) ==
    LET i == Find(s, old, 1)
    IN  IF i = 0 THEN s
        ELSE SubSeq(s, 1, i - 1) \o new
                 \o ReplaceAll(SubSeq(s, i + Len(old), Len(s)), old, new)

\* str.split(sep), sep non-empty
RECURSIVE Split(_, _)
Split(s, sep) ==
    LET i == Find(s, sep, 1)
    IN  IF i = 0 THEN <<s>>
        ELSE <<SubSeq(s, 1, i - 1)>> \o Split(SubSeq(s, i + Len(sep), Len(s)), sep)

\* sep.join(parts)
RECURSIVE Join(_, _)
Join(parts, sep) ==
    IF parts = <<>> THEN <<>>
    ELSE IF Len(parts) = 1 THEN parts[1]
    ELSE parts[1] \o sep \o Join(Tail(parts), sep)

\* re.sub(r'<[^>]+>', '', s)
RECURSIVE StripTags(_)
StripTags(s) ==
    IF s = <<>> THEN <<>>
    ELSE LET j == IF Head(s) = "<" THEN Find(s, <<">">>, 2) ELSE 0
         IN  IF j >= 3 THEN StripTags(SubSeq(s, j + 1, Len(s)))
             ELSE <<Head(s)>> \o StripTags(Tail(s))

Digits == <<"0", "1", "2", "3", "4", "5", "6", "7", "8", "9">>
IsDigit(c) == \E d \in 1..10 : Digits[d] = c
AllDigits(s) == \A i \in 1..Len(s) : IsDigit(s[i])
DigitVal(c) == (CHOOSE d \in 1..10 : Digits[d] = c) - 1

RECURSIVE Pow10(_)
Pow10(k) == IF k = 0 THEN 1 ELSE 10 * Pow10(k - 1)

\* str(n), n >= 0
RECURSIVE NatStr(_)
NatStr(n) == IF n < 10 THEN <<Digits[n + 1]>>
             ELSE NatStr(n \div 10) \o <<Digits[(n % 10) + 1]>>

\* f"{n:0{w}d}", n >= 0
Pad(n, w) ==
    LET d == NatStr(n)
    IN  [i \in 1..(IF w > Len(d) THEN w - Len(d) ELSE 0) |-> "0"] \o d

RECURSIVE DigitsVal(_)
DigitsVal(s) == IF s = <<>> THEN 0
                ELSE 10 * DigitsVal(SubSeq(s, 1, Len(s) - 1)) + DigitVal(s[Len(s)])

\* int(s): surrounding whitespace allowed, then decimal digits; Fail is ValueError
ParseInt(s) ==
    LET t == Strip(s)
    IN  IF t # <<>> /\ AllDigits(t) THEN DigitsVal(t) ELSE Fail

\* float(s) in ticks: digits, optionally a point and digits; Fail is ValueError
ParseFloat(s) ==
    LET t == Strip(s)
        p == Find(t, <<".">>, 1)
        ip == IF p = 0 THEN t ELSE SubSeq(t, 1, p - 1)
        fp == IF p = 0 THEN <<>> ELSE SubSeq(t, p + 1, Len(t))
    IN  IF AllDigits(ip) /\ AllDigits(fp) /\ Len(ip) + Len(fp) > 0
        THEN DigitsVal(ip) * TicksPerSec + (DigitsVal(fp) * TicksPerSec) \div Pow10(Len(fp))
        ELSE Fail

(***************************************************************************)
(* Timestamp codec.                                                        *)
(***************************************************************************)
\* _format_srt_time with the milliseconds rounded to nearest instead of cut
FormatSrtTimeRounded(s) ==
    LET hours == s \div (3600 * TicksPerSec)
        minutes == (s % (3600 * TicksPerSec)) \div (60 * TicksPerSec)
        secs == (s % (60 * TicksPerSec)) \div TicksPerSec
        millis == ((s % TicksPerSec) * 1000 + TicksPerSec \div 2) \div TicksPerSec
    IN  Pad(hours, 2) \o <<":">> \o Pad(minutes, 2) \o <<":">> \o Pad(secs, 2)
            \o <<",">> \o Pad(millis, 3)

\* _format_srt_time with the whole seconds rounded to nearest instead of cut
FormatSrtTimeSecondsRounded(s) ==
    LET hours == s \div (3600 * TicksPerSec)
        minutes == (s % (3600 * TicksPerSec)) \div (60 * TicksPerSec)
        secs == ((s % (60 * TicksPerSec)) + TicksPerSec \div 2) \div TicksPerSec
        millis == ((s % TicksPerSec) * 1000) \div TicksPerSec
    IN  Pad(hours, 2) \o <<":">> \o Pad(minutes, 2) \o <<":">> \o Pad(secs, 2)
            \o <<",">> \o Pad(millis, 3)

\* Transcriber._format_srt_time
_format_srt_time(s) ==
    LET hours == s \div (3600 * TicksPerSec)
        minutes == (s % (3600 * TicksPerSec)) \div (60 * TicksPerSec)
        secs == (s % (60 * TicksPerSec)) \div TicksPerSec
        millis == ((s % TicksPerSec) * 1000) \div TicksPerSec
    IN  Pad(hours, 2) \o <<":">> \o Pad(minutes, 2) \o <<":">> \o Pad(secs, 2)
            \o <<",">> \o Pad(millis, 3)

\* parse_srt_time
parse_srt_time(str) ==
    LET t == ReplaceAll(Strip(str), <<",">>, <<".">>)
        parts == Split(t, <<":">>)
    IN  IF Len(parts) < 3 THEN Fail
        ELSE LET hours == ParseInt(parts[1])
                 minutes == ParseInt(parts[2])
                 secs == ParseFloat(parts[3])
             IN  IF hours = Fail \/ minutes = Fail \/ secs = Fail THEN Fail
                 ELSE hours * 3600 * TicksPerSec + minutes * 60 * TicksPerSec + secs

(***************************************************************************)
(* Subtitle synthesis: Transcriber.save_srt.                               *)
(***************************************************************************)
NL == <<"\n">>
Arrow == <<" ", "-", "-", ">", " ">>
FontOpen == <<"<", "f", "o", "n", "t", " ", "c", "o", "l", "o", "r", "=", "\"",
              "#", "0", "0", "f", "f", "0", "0", "\"", ">">>
FontClose == <<"<", "/", "f", "o", "n", "t", ">">>

\* one f.write call: the written fields, the loop position (segment, word; word 0
\* outside the word loop) it was made at, and the times before formatting
Written(idx, start, end, text, si, k) ==
    [idx |-> idx, start |-> _format_srt_time(start), end |-> _format_srt_time(end),
     text |-> text, seg |-> si, word |-> k, t0 |-> start, t1 |-> end]

\* `not seg.words`: None or the empty list
NoWords(seg) == ~seg.has_words \/ seg.words = <<>>

\* the enumerate of _write_srt_simple starting at 0
WriteSrtSimpleFromZero(segs) ==
    [i \in 1..Len(segs) |-> Written(i - 1, segs[i].start, segs[i].end, segs[i].text, i, 0)]

\* Transcriber._write_srt_simple
_write_srt_simple(segs) ==
    [i \in 1..Len(segs) |-> Written(i, segs[i].start, segs[i].end, segs[i].text, i, 0)]

\* the highlight put on the last occurrence of the word
HighlightLast(full_text, word) ==
    LET hits == {i \in 1..(Len(full_text) - Len(word) + 1) :
                     SubSeq(full_text, i, i + Len(word) - 1) = word}
    IN  IF hits = {} THEN full_text
        ELSE SubSeq(full_text, 1, Max(hits) - 1) \o FontOpen \o word \o FontClose
                 \o SubSeq(full_text, Max(hits) + Len(word), Len(full_text))

\* full_text.replace(word, f'<font color="#00ff00">{word}</font>', 1)
Highlight(full_text, word) ==
    Replace1(full_text, word, FontOpen \o word \o FontClose)

\* the word loop without its `if not word: continue`
RECURSIVE WordLoopNoSkip(_, _, _, _)
WordLoopNoSkip(seg, si, k, idx) ==
    IF k > Len(seg.words) THEN <<>>
    ELSE LET word == Strip(seg.words[k].word)
         IN  <<Written(idx, seg.words[k].start, seg.words[k].end,
                       IF word = <<>> THEN seg.text ELSE Highlight(seg.text, word), si, k)>>
                 \o WordLoopNoSkip(seg, si, k + 1, idx + 1)

\* _write_srt_word_highlight, the loop over seg.words from word k on, idx the counter
RECURSIVE WordLoop(_, _, _, _)
WordLoop(seg, si, k, idx) ==
    IF k > Len(seg.words) THEN <<>>
    ELSE LET word == Strip(seg.words[k].word)
         IN  IF word = <<>> THEN WordLoop(seg, si, k + 1, idx)
             ELSE <<Written(idx, seg.words[k].start, seg.words[k].end,
                            Highlight(seg.text, word), si, k)>>
                      \o WordLoop(seg, si, k + 1, idx + 1)

\* the segment loop with the counter restarted at every segment
RECURSIVE SegLoopRestart(_, _, _)
SegLoopRestart(segs, si, idx) ==
    IF si > Len(segs) THEN <<>>
    ELSE IF NoWords(segs[si])
    THEN <<Written(1, segs[si].start, segs[si].end, segs[si].text, si, 0)>>
             \o SegLoopRestart(segs, si + 1, 1)
    ELSE WordLoop(segs[si], si, 1, 1) \o SegLoopRestart(segs, si + 1, 1)

\* _write_srt_word_highlight, the loop over segments from segment si on
RECURSIVE SegLoop(_, _, _)
SegLoop(segs, si, idx) ==
    IF si > Len(segs) THEN <<>>
    ELSE IF NoWords(segs[si])
    THEN <<Written(idx, segs[si].start, segs[si].end, segs[si].text, si, 0)>>
             \o SegLoop(segs, si + 1, idx + 1)
    ELSE LET ws == WordLoop(segs[si], si, 1, idx)
         IN  ws \o SegLoop(segs, si + 1, idx + Len(ws))

\* Transcriber._write_srt_word_highlight
_write_srt_word_highlight(segs) == SegLoop(segs, 1, 1)

\* f"{idx}\n{start} --> {end}\n{text}\n\n"
Block(w) == NatStr(w.idx) \o NL \o w.start \o Arrow \o w.end \o NL \o w.text \o NL \o NL

RECURSIVE Concat(_)
Concat(ss) == IF ss = <<>> THEN <<>> ELSE Head(ss) \o Concat(Tail(ss))

\* the file after `with open(output_path, "w")` closes
FileOf(ws) == Concat([i \in 1..Len(ws) |-> Block(ws[i])])

(***************************************************************************)
(* Transcriber.transcribe and Transcriber.save_lrc.                        *)
(***************************************************************************)
\* the LyricSegment transcribe makes of a segment of the ASR result
ConvertSegment(seg, word_level) ==
    [start |-> seg.start, end |-> seg.end, text |-> Strip(seg.text),
     has_words |-> word_level /\ seg.words # <<>>,
     words |-> IF word_level /\ seg.words # <<>> THEN seg.words ELSE <<>>]

\* the calls transcribe makes of the ASR model
AsrCalls(refine_timestamps) ==
    IF refine_timestamps THEN <<"transcribe", "refine">> ELSE <<"transcribe">>

TicksPerCs == 10 * SubMs

\* the hundredths that format(secs, ".2f") can give: the nearest, and for a time
\* half-way between two hundredths either of them, as the float that stands for
\* the time lies on one side or the other
Hundredths(secs) ==
    LET q == secs \div TicksPerCs
        r == secs % TicksPerCs
    IN  IF 2 * r < TicksPerCs THEN {q}
        ELSE IF 2 * r > TicksPerCs THEN {q + 1}
        ELSE {q, q + 1}

\* the hundredths nearest to secs, the upper of two when up
Rounded(secs, up) == IF up THEN Max(Hundredths(secs)) ELSE Min(Hundredths(secs))

\* f"[{mins:02d}:{secs:05.2f}]{seg.text}\n"
LrcLine(seg, up) ==
    LET mins == seg.start \div (60 * TicksPerSec)
        secs == seg.start % (60 * TicksPerSec)
        cs == Rounded(secs, up)
    IN  <<"[">> \o Pad(mins, 2) \o <<":">> \o Pad(cs \div 100, 2) \o <<".">>
            \o Pad(cs % 100, 2) \o <<"]">> \o seg.text \o NL

\* Transcriber.save_lrc: the lines written, ups[i] saying which way a half-way
\* time of segment i goes
save_lrc(segs, ups) == [i \in 1..Len(segs) |-> LrcLine(segs[i], ups[i])]

(***************************************************************************)
(* Block-format parser: parse_srt.                                         *)
(***************************************************************************)
\* the block's text taken from its first text line alone
ParseBlockFirstLine(block) ==
    IF Strip(block) = <<>> THEN <<>>
    ELSE LET lines == Split(Strip(block), NL)
         IN  IF Len(lines) < 3 THEN <<>>
             ELSE LET index == ParseInt(lines[1])
                      stamps == Split(lines[2], Arrow)
                      start == IF Len(stamps) = 2 THEN parse_srt_time(stamps[1]) ELSE Fail
                      end == IF Len(stamps) = 2 THEN parse_srt_time(stamps[2]) ELSE Fail
                      raw_text == lines[3]
                      text == StripTags(raw_text)
                  IN  IF index = Fail \/ start = Fail \/ end = Fail THEN <<>>
                      ELSE <<[index |-> index, start |-> start, end |-> end,
                              text |-> Strip(text), raw_text |-> raw_text]>>

\* one pass of the `for block in blocks` loop: the appended entry, or nothing
ParseBlock(block) ==
    IF Strip(block) = <<>> THEN <<>>
    ELSE LET lines == Split(Strip(block), NL)
         IN  IF Len(lines) < 3 THEN <<>>
             ELSE LET index == ParseInt(lines[1])
                      stamps == Split(lines[2], Arrow)
                      start == IF Len(stamps) = 2 THEN parse_srt_time(stamps[1]) ELSE Fail
                      end == IF Len(stamps) = 2 THEN parse_srt_time(stamps[2]) ELSE Fail
                      raw_text == Join(SubSeq(lines, 3, Len(lines)), <<" ">>)
                      text == StripTags(raw_text)
                  IN  IF index = Fail \/ start = Fail \/ end = Fail THEN <<>>
                      ELSE <<[index |-> index, start |-> start, end |-> end,
                              text |-> Strip(text), raw_text |-> raw_text]>>

\* parse_srt giving up at the first block it cannot parse
RECURSIVE ParseUntilBad(_)
ParseUntilBad(bs) ==
    IF bs = <<>> \/ ParseBlock(Head(bs)) = <<>> THEN <<>>
    ELSE ParseBlock(Head(bs)) \o ParseUntilBad(Tail(bs))

ParseSrtStopAtBad(text) == ParseUntilBad(Split(Strip(text), <<"\n", "\n">>))

\* parse_srt, on the file's text
parse_srt(text) ==
    LET blocks == Split(Strip(text), <<"\n", "\n">>)
    IN  Concat([i \in 1..Len(blocks) |-> ParseBlock(blocks[i])])

(***************************************************************************)
(* Timeline validator: validate_format, and main's display of its report.  *)
(***************************************************************************)
\* expected_words: None (given = FALSE) or a list of words
NoExpected == [given |-> FALSE, words |-> <<>>]
NoReport == [num_entries |-> 0, total_duration |-> 0, issues |-> <<>>, warnings |-> <<>>]

\* no file written
NoFile == [written |-> FALSE, path |-> <<>>, text |-> <<>>]

\* output_path: Optional[str | Path] = None
None == <<>>

\* self._model = None
NotLoaded == "None"

\* a Transcriber as __init__ leaves it, with the default TranscriptionConfig, and
\* nothing written by save_lrc
NoTranscriber ==
    /\ config = [refine_timestamps |-> TRUE, word_level |-> TRUE]
    /\ _model = NotLoaded
    /\ audio_exists = FALSE
    /\ asr_calls = <<>>
    /\ lrc = <<>>

\* no method called yet
NoReturn == [op |-> "", arg |-> <<>>, value |-> <<>>]

\* a run without a ChineseEnhancer: the fields as ChineseEnhancer.__init__ and the
\* first lines of enhance_srt would set them
NoEnhancer ==
    /\ reachable = FALSE
    /\ output_format = "full"
    /\ _cache = <<>>
    /\ calls = <<>>
    /\ unique_phrases = {}
    /\ todo = {}
    /\ enhanced_entries = <<>>
    /\ output = NoFile
    /\ returned = NoReturn
    /\ srt_path = <<>>
    /\ output_path = None

\* SRTEntry.duration
duration(e) == e.end - e.start

\* overlap that also counts entries which only touch
OverlapsOrTouches(self, other) == self.start <= other.end /\ other.start <= self.end

\* overlaps_with true also when other starts where self ends
OverlapsOrAbuts(self, other) == self.start < other.end /\ other.start <= self.end

\* overlaps_with true only when other starts strictly inside self
OverlapsStartingInside(self, other) == self.start < other.start /\ other.start < self.end

\* SRTEntry.overlaps_with
overlaps_with(self, other) == self.start < other.end /\ other.start < self.end

\* Check 1, the loops over i and over j from i + 1: the overlapping pairs appended
RECURSIVE OverlapScan(_, _, _)
OverlapScan(es, i, j) ==
    IF i > Len(es) THEN <<>>
    ELSE IF j > Len(es) THEN OverlapScan(es, i + 1, i + 2)
    ELSE (IF overlaps_with(es[i], es[j]) THEN <<<<es[i], es[j]>>>> ELSE <<>>)
             \o OverlapScan(es, i, j + 1)

\* the adjacent pair flagged also when the two entries only touch
EndsAtOrAfterNextStart(current, next_entry) == current.end >= next_entry.start

\* Check 2, the test on one adjacent pair
EndsAfterNextStart(current, next_entry) == current.end > next_entry.start

\* Check 2 left out when Check 1 found an overlap
RECURSIVE NonSequentialScanSkipped(_, _)
NonSequentialScanSkipped(es, i) ==
    IF OverlapScan(es, 1, 2) # <<>> \/ i > Len(es) - 1 THEN <<>>
    ELSE (IF EndsAfterNextStart(es[i], es[i + 1]) THEN <<<<es[i], es[i + 1]>>>> ELSE <<>>)
             \o NonSequentialScanSkipped(es, i + 1)

\* Check 2, the loop over i: the non-sequential adjacent pairs appended
RECURSIVE NonSequentialScan(_, _)
NonSequentialScan(es, i) ==
    IF i > Len(es) - 1 THEN <<>>
    ELSE (IF EndsAfterNextStart(es[i], es[i + 1]) THEN <<<<es[i], es[i + 1]>>>> ELSE <<>>)
             \o NonSequentialScan(es, i + 1)

\* a duration of exactly 100 ms taken as too short
TooShortOrEqual(e) == 10 * duration(e) <= TicksPerSec

\* Check 3: e.duration < 0.1
TooShort(e) == 10 * duration(e) < TicksPerSec

\* a duration of exactly 10 s taken as too long
TooLongOrEqual(e) == duration(e) >= 10 * TicksPerSec

\* Check 3: e.duration > 10.0
TooLong(e) == duration(e) > 10 * TicksPerSec

\* a gap of exactly 2 s taken as large
IsLargeGapOrEqual(gap) == gap >= 2 * TicksPerSec

\* Check 5: gap > 2.0
IsLargeGap(gap) == gap > 2 * TicksPerSec

\* Check 5, the loop over i: the adjacent pairs more than 2 s apart
RECURSIVE LargeGapScan(_, _)
LargeGapScan(es, i) ==
    IF i > Len(es) - 1 THEN <<>>
    ELSE LET gap == es[i + 1].start - es[i].end
         IN  (IF IsLargeGap(gap) THEN <<<<es[i], es[i + 1], gap>>>> ELSE <<>>)
                 \o LargeGapScan(es, i + 1)

UpperCase == <<"A", "B", "C", "D", "E", "F", "G", "H", "I", "J", "K", "L", "M",
               "N", "O", "P", "Q", "R", "S", "T", "U", "V", "W", "X", "Y", "Z">>
LowerCase == <<"a", "b", "c", "d", "e", "f", "g", "h", "i", "j", "k", "l", "m",
               "n", "o", "p", "q", "r", "s", "t", "u", "v", "w", "x", "y", "z">>

\* str.lower()
Lower(s) ==
    [i \in 1..Len(s) |->
        IF \E k \in 1..26 : UpperCase[k] = s[i]
        THEN LowerCase[CHOOSE k \in 1..26 : UpperCase[k] = s[i]]
        ELSE s[i]]

\* str.split() on whitespace
RECURSIVE SplitWhitespace(_)
SplitWhitespace(s) ==
    IF \A i \in 1..Len(s) : IsSpace(s[i]) THEN <<>>
    ELSE LET first == CHOOSE i \in 1..Len(s) :
                          ~IsSpace(s[i]) /\ \A j \in 1..(i - 1) : IsSpace(s[j])
             stops == {i \in first..Len(s) : IsSpace(s[i])}
             stop == IF stops = {} THEN Len(s) + 1 ELSE Min(stops)
         IN  <<SubSeq(s, first, stop - 1)>> \o SplitWhitespace(SubSeq(s, stop, Len(s)))

Punctuation == {".", ",", "!", "?", ";", ":"}

\* the characters removed at the end of the word only
StripPunctuationTrailing(w) ==
    IF \A i \in 1..Len(w) : w[i] \in Punctuation THEN <<>>
    ELSE LET last == CHOOSE i \in 1..Len(w) :
                         w[i] \notin Punctuation /\ \A j \in (i + 1)..Len(w) : w[j] \in Punctuation
         IN  SubSeq(w, 1, last)

\* w.strip(".,!?;:"): the characters are removed at both ends
StripPunctuation(w) ==
    IF \A i \in 1..Len(w) : w[i] \in Punctuation THEN <<>>
    ELSE LET first == CHOOSE i \in 1..Len(w) :
                          w[i] \notin Punctuation /\ \A j \in 1..(i - 1) : w[j] \in Punctuation
             last == CHOOSE i \in 1..Len(w) :
                         w[i] \notin Punctuation /\ \A j \in (i + 1)..Len(w) : w[j] \in Punctuation
         IN  SubSeq(w, first, last)

IsNonEmpty(w) == w # <<>>

\* Check 4, the loop over entries: transcribed_words
RECURSIVE TranscribedWords(_)
TranscribedWords(es) ==
    IF es = <<>> THEN <<>>
    ELSE LET words == SplitWhitespace(Lower(Head(es).text))
             stripped == [i \in 1..Len(words) |-> StripPunctuation(words[i])]
         IN  SelectSeq(stripped, IsNonEmpty) \o TranscribedWords(Tail(es))

Range(q) == {q[i] : i \in 1..Len(q)}

FirstThree(q) == SubSeq(q, 1, IF Len(q) < 3 THEN Len(q) ELSE 3)

\* validate_format; the message of an issue, a text made of its count, is left out
validate_format(es, expected) ==
    LET overlaps == OverlapScan(es, 1, 2)
        non_sequential == NonSequentialScan(es, 1)
        too_short == SelectSeq(es, TooShort)
        too_long == SelectSeq(es, TooLong)
        checked == expected.given /\ expected.words # <<>>
        transcribed_words == IF checked THEN TranscribedWords(es) ELSE <<>>
        missing_words == Range(expected.words) \ Range(transcribed_words)
        extra_words == SelectSeq(transcribed_words,
                                 LAMBDA w : w \notin Range(expected.words))
        large_gaps == LargeGapScan(es, 1)
        issues ==
            (IF overlaps # <<>>
             THEN <<[type |-> "OVERLAPPING_ENTRIES", count |-> Len(overlaps),
                     examples |-> FirstThree(overlaps)]>>
             ELSE <<>>)
            \o (IF non_sequential # <<>>
                THEN <<[type |-> "NON_SEQUENTIAL", count |-> Len(non_sequential),
                        examples |-> FirstThree(non_sequential)]>>
                ELSE <<>>)
            \o (IF checked /\ missing_words # {}
                THEN <<[type |-> "MISSING_WORDS", count |-> Cardinality(missing_words),
                        words |-> missing_words]>>
                ELSE <<>>)
        warnings ==
            (IF too_short # <<>>
             THEN <<[type |-> "VERY_SHORT_DURATION", count |-> Len(too_short)]>>
             ELSE <<>>)
            \o (IF too_long # <<>>
                THEN <<[type |-> "VERY_LONG_DURATION", count |-> Len(too_long)]>>
                ELSE <<>>)
            \o (IF checked /\ extra_words # <<>>
                THEN <<[type |-> "EXTRA_WORDS", count |-> Len(extra_words),
                        words |-> extra_words]>>
                ELSE <<>>)
            \o (IF large_gaps # <<>>
                THEN <<[type |-> "LARGE_GAPS", count |-> Len(large_gaps)]>>
                ELSE <<>>)
    IN  [num_entries |-> Len(es),
         total_duration |-> IF es # <<>> THEN es[Len(es)].end ELSE 0,
         issues |-> issues, warnings |-> warnings]

\* max(0, entry1.end - entry2.start)
OverlapAmount(pair) ==
    IF pair[1].end - pair[2].start > 0 THEN pair[1].end - pair[2].start ELSE 0

\* main, the loop over results["issues"]: the overlap amounts printed
RECURSIVE OverlapsShown(_)
OverlapsShown(issues) ==
    IF issues = <<>> THEN <<>>
    ELSE (IF Head(issues).type = "OVERLAPPING_ENTRIES"
          THEN [k \in 1..Len(Head(issues).examples) |->
                   OverlapAmount(Head(issues).examples[k])]
          ELSE <<>>)
             \o OverlapsShown(Tail(issues))

\* main's expected words taken from the command line as they are
ExpectedFromArgvVerbatim(args) == args

\* main: expected_words = None, or [w.lower() for w in sys.argv[idx + 1:]]
ExpectedFromArgv(args) ==
    IF args.given
    THEN [given |-> TRUE, words |-> [i \in 1..Len(args.words) |-> Lower(args.words[i])]]
    ELSE NoExpected

(***************************************************************************)
(* Inputs.                                                                 *)
(***************************************************************************)
\* times with every field of HH:MM:SS,mmm at its least and greatest value, and
\* every position between two milliseconds
TimeSet ==
    {h * 3600 * TicksPerSec + m * 60 * TicksPerSec + s * TicksPerSec + ms * SubMs + sub :
        h \in {0, 1, 12}, m \in {0, 59}, s \in {0, 59}, ms \in {0, 7, 999},
        sub \in 0..(SubMs - 1)}

(***************************************************************************)
(* Timestamp codec run: _format_srt_time, then parse_srt_time on its       *)
(* result.                                                                 *)
(***************************************************************************)
InitCodec ==
    /\ pc = "start"
    /\ seconds \in TimeSet
    /\ time_str = <<>>
    /\ decoded = Fail
    /\ NoTranscriber
    /\ segments = <<>>
    /\ word_highlight = FALSE
    /\ f = <<>>
    /\ file_blocks = <<>>
    /\ content = <<>>
    /\ entries = <<>>
    /\ argv = NoExpected
    /\ NoEnhancer
    /\ expected_words = NoExpected
    /\ results = NoReport
    /\ shown = <<>>

FormatSrtTime ==
    /\ pc = "start"
    /\ time_str' = _format_srt_time(seconds)
    /\ pc' = "formatted"
    /\ UNCHANGED <<transcriberVars, seconds, decoded, srtVars, validateVars, enhanceVars>>

ParseSrtTime ==
    /\ pc = "formatted"
    /\ decoded' = parse_srt_time(time_str)
    /\ pc' = "decoded"
    /\ UNCHANGED <<transcriberVars, seconds, time_str, srtVars, validateVars, enhanceVars>>

NextCodec == FormatSrtTime \/ ParseSrtTime

SpecCodec == InitCodec /\ [][NextCodec]_vars

(***************************************************************************)
(* Synthesis run: save_srt on a list of segments, then parse_srt on the    *)
(* file written.                                                           *)
(***************************************************************************)
GoGoGo == <<"g", "o", " ", "g", "o", " ", "g", "o">>
TwoLines == <<"a", "\n", "b">>
Padded == <<"a", " ", "b", " ">>
SegTexts == {GoGoGo, TwoLines, Padded}

Go == <<"g", "o">>
SpaceA == <<" ", "a">>
Blank == <<" ">>

\* seg.words as (is not None, surface texts)
WordShapes ==
    {<<FALSE, <<>>>>, <<TRUE, <<>>>>, <<TRUE, <<Go>>>>, <<TRUE, <<Blank>>>>,
     <<TRUE, <<Go, Go>>>>, <<TRUE, <<SpaceA, Blank>>>>}

\* the i-th segment: 2 s long, 3 s after the one before, between two milliseconds;
\* its k-th token lasts half a second and follows token k-1
SegStart(i) == (i - 1) * 3 * TicksPerSec + i
LyricSegment(i, text, shape) ==
    [start |-> SegStart(i), end |-> SegStart(i) + 2 * TicksPerSec, text |-> text,
     has_words |-> shape[1],
     words |-> [k \in 1..Len(shape[2]) |->
                  [start |-> SegStart(i) + (k - 1) * (TicksPerSec \div 2),
                   end |-> SegStart(i) + k * (TicksPerSec \div 2),
                   word |-> shape[2][k]]]]

Init ==
    /\ pc = "segments"
    /\ \E n \in 0..MaxSegs : \E sh \in [1..n -> SegTexts \X WordShapes] :
           segments = [i \in 1..n |-> LyricSegment(i, sh[i][1], sh[i][2])]
    /\ word_highlight = FALSE
    /\ f = <<>>
    /\ file_blocks = <<>>
    /\ content = <<>>
    /\ entries = <<>>
    /\ seconds = 0
    /\ time_str = <<>>
    /\ decoded = Fail
    /\ NoTranscriber
    /\ argv = NoExpected
    /\ NoEnhancer
    /\ expected_words = NoExpected
    /\ results = NoReport
    /\ shown = <<>>

\* Transcriber.save_srt
SaveSrt(wh) ==
    /\ pc = "segments"
    /\ word_highlight' = wh
    /\ f' = IF wh THEN _write_srt_word_highlight(segments) ELSE _write_srt_simple(segments)
    /\ content' = FileOf(f')
    /\ pc' = "saved"
    /\ UNCHANGED <<transcriberVars,
                   segments, file_blocks, entries, codecVars, validateVars, enhanceVars>>

\* parse_srt on the saved file
ParseSrt ==
    /\ pc = "saved"
    /\ entries' = parse_srt(content)
    /\ pc' = "parsed"
    /\ UNCHANGED <<transcriberVars,
                   segments, word_highlight, f, file_blocks, content, codecVars,
                   validateVars, enhanceVars>>

Next == (\E wh \in BOOLEAN : SaveSrt(wh)) \/ ParseSrt

Spec == Init /\ [][Next]_vars

(***************************************************************************)
(* Properties of the synthesis run.                                        *)
(***************************************************************************)
Saved == pc \in {"saved", "parsed"}

RECURSIVE SumSeq(_)
SumSeq(ns) == IF ns = <<>> THEN 0 ELSE Head(ns) + SumSeq(Tail(ns))

Occurrences(s, pat) ==
    Cardinality({i \in 1..(Len(s) - Len(pat) + 1) : SubSeq(s, i, i + Len(pat) - 1) = pat})

FloorMs(t) == (t \div SubMs) * SubMs

LineBreaksToSpaces(s) == [i \in 1..Len(s) |-> IF s[i] = "\n" THEN " " ELSE s[i]]

EveryLineNonBlank(s) ==
    LET lines == Split(s, NL)
    IN  \A i \in 1..Len(lines) : Strip(lines[i]) # <<>>

AllHaveTokens == \A i \in 1..Len(segments) : ~NoWords(segments[i])

NonBlankTokens(seg) ==
    Cardinality({k \in 1..Len(seg.words) : Strip(seg.words[k].word) # <<>>})

\* text with the run of Len(word) characters at position i wrapped in the highlight tag
WrappedAt(text, i, word) ==
    SubSeq(text, 1, i - 1) \o FontOpen \o SubSeq(text, i, i + Len(word) - 1) \o FontClose
        \o SubSeq(text, i + Len(word), Len(text))

\* C1 as stated: in word-highlight mode, when every segment has at least one token,
\* the number of entries written equals the number of tokens of all segments.
C1_CountEqualsAllTokens ==
    (Saved /\ word_highlight /\ AllHaveTokens) =>
        Len(f) = SumSeq([i \in 1..Len(segments) |-> Len(segments[i].words)])

\* C1 amended: in word-highlight mode, when every segment has at least one token,
\* the number of entries written equals the number of tokens whose surface text is
\* not blank (tokens that are empty after trimming whitespace write no entry).
C1_CountEqualsNonBlankTokens ==
    (Saved /\ word_highlight /\ AllHaveTokens) =>
        Len(f) = SumSeq([i \in 1..Len(segments) |-> NonBlankTokens(segments[i])])

C1_Witness ==
    /\ Saved /\ word_highlight /\ AllHaveTokens
    /\ Len(segments) = 2
    /\ \E i \in 1..Len(segments) : NonBlankTokens(segments[i]) < Len(segments[i].words)
    /\ Len(f) > 0

\* C2: in word-highlight mode every entry written for a token is the segment text
\* with exactly one highlight span, the span encloses the token's surface text, and
\* removing the markup gives back the segment text.
C2_ExactlyOneHighlightedRun ==
    (Saved /\ word_highlight) =>
        \A n \in 1..Len(f) : f[n].word > 0 =>
            LET seg == segments[f[n].seg]
                word == Strip(seg.words[f[n].word].word)
            IN  /\ Occurrences(f[n].text, FontOpen) = 1
                /\ Occurrences(f[n].text, FontClose) = 1
                /\ \E i \in 1..(Len(seg.text) - Len(word) + 1) :
                       /\ SubSeq(seg.text, i, i + Len(word) - 1) = word
                       /\ f[n].text = WrappedAt(seg.text, i, word)
                /\ StripTags(f[n].text) = seg.text

C4_ContinuousIndexAndFallback ==
    (Saved /\ word_highlight) =>
        /\ \A k \in 1..Len(f) : f[k].idx = k
        /\ \A i \in 1..Len(segments) : NoWords(segments[i]) =>
               LET mine == {k \in 1..Len(f) : f[k].seg = i}
               IN  /\ Cardinality(mine) = 1
                   /\ \A k \in mine :
                          /\ f[k].text = segments[i].text
                          /\ parse_srt_time(f[k].start) = FloorMs(segments[i].start)
                          /\ parse_srt_time(f[k].end) = FloorMs(segments[i].end)

C4_Witness ==
    /\ Saved /\ word_highlight
    /\ Len(segments) = 2
    /\ ~NoWords(segments[1]) /\ NoWords(segments[2])
    /\ Len(f) = 3

\* C5: in simple mode there is exactly one entry per segment in input order, the
\* i-th (from 0) with index i+1, the segment text verbatim and the segment's start
\* and end times (to the millisecond written).
C5_SimpleOnePerSegment ==
    (Saved /\ ~word_highlight) =>
        /\ Len(f) = Len(segments)
        /\ \A i \in 1..Len(f) :
               /\ f[i].idx = i
               /\ f[i].seg = i
               /\ f[i].text = segments[i].text
               /\ parse_srt_time(f[i].start) = FloorMs(segments[i].start)
               /\ parse_srt_time(f[i].end) = FloorMs(segments[i].end)

C5_Witness ==
    /\ Saved /\ ~word_highlight
    /\ Len(segments) = 2
    /\ ~NoWords(segments[1])
    /\ f[2].idx = 2

\* C7 as stated: writing entries whose text has no blank line and parsing the file
\* recovers, in order, the same (index, start, end, plain text) for every entry
\* (times taken to the millisecond written).
C7_RoundTripSamePlainText ==
    (pc = "parsed" /\ \A i \in 1..Len(f) : EveryLineNonBlank(f[i].text)) =>
        /\ Len(entries) = Len(f)
        /\ \A i \in 1..Len(entries) :
               /\ entries[i].index = f[i].idx
               /\ entries[i].start = FloorMs(f[i].t0)
               /\ entries[i].end = FloorMs(f[i].t1)
               /\ entries[i].text = StripTags(f[i].text)

\* C7 amended: writing entries whose text has no blank line and parsing the file
\* recovers, in order, for every entry the same index, the start and end cut to whole
\* milliseconds, and as plain text the markup-stripped text with every line break
\* replaced by one space and leading and trailing whitespace removed.
C7_RoundTripLinesJoined ==
    (pc = "parsed" /\ \A i \in 1..Len(f) : EveryLineNonBlank(f[i].text)) =>
        /\ Len(entries) = Len(f)
        /\ \A i \in 1..Len(entries) :
               /\ entries[i].index = f[i].idx
               /\ entries[i].start = FloorMs(f[i].t0)
               /\ entries[i].end = FloorMs(f[i].t1)
               /\ entries[i].text = Strip(LineBreaksToSpaces(StripTags(f[i].text)))

C7_Witness ==
    /\ pc = "parsed"
    /\ Len(entries) = 2
    /\ \E i \in 1..Len(f) : Occurrences(f[i].text, NL) = 1
    /\ \E i \in 1..Len(f) : Occurrences(f[i].text, FontOpen) = 1

\* the entries written for segment i
EntriesOfSegment(i) == SelectSeq(f, LAMBDA w : w.seg = i)

\* C29: no lyric line is lost in word-highlight mode: every segment has at least
\* one entry in the output, a segment whose tokens all have blank surface text
\* included.
C29_EverySegmentHasAnEntry ==
    (Saved /\ word_highlight) =>
        \A i \in 1..Len(segments) : EntriesOfSegment(i) # <<>>

(***************************************************************************)
(* Properties of the timestamp codec run.                                  *)
(***************************************************************************)
\* C6 as stated: parse_srt_time(_format_srt_time(s)) is the whole millisecond
\* nearest to s.
C6_RoundTripNearestMs ==
    pc = "decoded" =>
        2 * (IF decoded > seconds THEN decoded - seconds ELSE seconds - decoded) <= SubMs

\* C6 amended: parse_srt_time(_format_srt_time(s)) is s cut down to a whole
\* millisecond: the greatest whole millisecond not above s, which is s itself when
\* s is a whole number of milliseconds and otherwise less than 1 ms below s.
C6_RoundTripTruncatedMs ==
    pc = "decoded" =>
        /\ decoded = FloorMs(seconds)
        /\ decoded <= seconds /\ seconds - decoded < SubMs

C6_Witness ==
    /\ pc = "decoded"
    /\ seconds % SubMs = SubMs - 1
    /\ seconds > 3600 * TicksPerSec
    /\ decoded # Fail

\* the fields of a time string of the form HH:MM:SS,mmm
HasTimeForm(str) ==
    /\ Len(str) = 12
    /\ str[3] = ":" /\ str[6] = ":" /\ str[9] = ","
    /\ \A i \in {1, 2, 4, 5, 7, 8, 10, 11, 12} : IsDigit(str[i])
FieldHH(str) == DigitsVal(SubSeq(str, 1, 2))
FieldMM(str) == DigitsVal(SubSeq(str, 4, 5))
FieldSS(str) == DigitsVal(SubSeq(str, 7, 8))
FieldMmm(str) == DigitsVal(SubSeq(str, 10, 12))

\* C23: _format_srt_time cuts and never rounds: for a time s >= 0 its result is
\* HH:MM:SS,mmm with HH = floor(s / 3600), MM = floor((s mod 3600) / 60) within
\* 0..59, SS = floor(s mod 60) within 0..59 and mmm = floor((s mod 1) * 1000)
\* within 0..999, so that the fields add up to floor(s * 1000) milliseconds.
C23_TruncatesEveryField ==
    pc \in {"formatted", "decoded"} =>
        /\ HasTimeForm(time_str)
        /\ FieldHH(time_str) = seconds \div (3600 * TicksPerSec)
        /\ FieldMM(time_str) = (seconds % (3600 * TicksPerSec)) \div (60 * TicksPerSec)
        /\ FieldMM(time_str) \in 0..59
        /\ FieldSS(time_str) = (seconds % (60 * TicksPerSec)) \div TicksPerSec
        /\ FieldSS(time_str) \in 0..59
        /\ FieldMmm(time_str) = (seconds % TicksPerSec) \div SubMs
        /\ FieldMmm(time_str) \in 0..999
        /\ FieldHH(time_str) * 3600000 + FieldMM(time_str) * 60000
               + FieldSS(time_str) * 1000 + FieldMmm(time_str) = seconds \div SubMs

\* a time just below 13 hours, in the upper half of its second and of its
\* millisecond, was written with every field at its greatest value
C23_Witness ==
    /\ pc = "formatted"
    /\ seconds = 13 * 3600 * TicksPerSec - 1
    /\ time_str = <<"1", "2", ":", "5", "9", ":", "5", "9", ",", "9", "9", "9">>

(***************************************************************************)
(* Parser run: parse_srt on a subtitle file made of well-formed and        *)
(* malformed blocks.                                                       *)
(***************************************************************************)
Stamp1 == <<"0", "0", ":", "0", "0", ":", "0", "1", ",", "0", "0", "0">>
Stamp2 == <<"0", "0", ":", "0", "0", ":", "0", "2", ",", "5", "0", "0">>
Stamp1Dot == <<"0", "0", ":", "0", "0", ":", "0", "1", ".", "0", "0", "0">>
Stamp2Dot == <<"0", "0", ":", "0", "0", ":", "0", "2", ".", "5", "0", "0">>
Short1 == <<"0", "0", ":", "0", "1", ",", "0", "0", "0">>
Short2 == <<"0", "0", ":", "0", "2", ",", "5", "0", "0">>

\* a block as its index line, its timestamp line and its text lines
BlockPool ==
    {[index |-> <<"1">>, stamps |-> Stamp1 \o Arrow \o Stamp2, text |-> <<<<"a">>>>],
     [index |-> <<"2">>, stamps |-> Stamp1Dot \o Arrow \o Stamp2Dot, text |-> <<<<"b">>>>],
     [index |-> <<"3">>, stamps |-> Stamp1 \o Arrow \o Stamp2,
      text |-> <<<<"a">>, FontOpen \o <<"b">> \o FontClose>>],
     [index |-> <<"x">>, stamps |-> Stamp1 \o Arrow \o Stamp2, text |-> <<<<"a">>>>],
     [index |-> <<"5">>, stamps |-> Short1 \o Arrow \o Short2, text |-> <<<<"a">>>>],
     [index |-> <<"6">>, stamps |-> Stamp1 \o <<"-", "-", ">">> \o Stamp2,
      text |-> <<<<"a">>>>],
     [index |-> <<"7">>, stamps |-> Stamp1 \o Arrow \o Stamp2, text |-> <<>>]}

BlockText(b) == Join(<<b.index, b.stamps>> \o b.text, NL)

\* the file: its blocks, each followed by a blank line
FileOfBlocks(bs) == Concat([i \in 1..Len(bs) |-> BlockText(bs[i]) \o NL \o NL])

InitParse ==
    /\ pc = "saved"
    /\ \E n \in 0..MaxBlocks : file_blocks \in [1..n -> BlockPool]
    /\ content = FileOfBlocks(file_blocks)
    /\ segments = <<>>
    /\ word_highlight = FALSE
    /\ f = <<>>
    /\ entries = <<>>
    /\ seconds = 0
    /\ time_str = <<>>
    /\ decoded = Fail
    /\ NoTranscriber
    /\ argv = NoExpected
    /\ NoEnhancer
    /\ expected_words = NoExpected
    /\ results = NoReport
    /\ shown = <<>>

NextParse == ParseSrt

SpecParse == InitParse /\ [][NextParse]_vars

\* what the lines of a block say
IndexIsNumber(b) == b.index # <<>> /\ AllDigits(b.index)
HasArrow(b) == Find(b.stamps, <<"-", "-", ">">>, 1) > 0
StampSides(b) == Split(b.stamps, <<"-", "-", ">">>)
ThreeFields(b) ==
    \A k \in 1..Len(StampSides(b)) : Len(Split(StampSides(b)[k], <<":">>)) >= 3
ArrowSpaced(b) == Len(Split(b.stamps, Arrow)) = 2
HasText(b) == Len(b.text) >= 1

\* the entry a block stands for: its index, 1 s to 2.5 s, its text lines joined
EntryOf(b) ==
    [index |-> DigitsVal(b.index), start |-> TicksPerSec,
     end |-> 2 * TicksPerSec + TicksPerSec \div 2,
     text |-> StripTags(Join(b.text, <<" ">>)), raw_text |-> Join(b.text, <<" ">>)]

EntriesOfBlocks(bs, WellFormed(_)) ==
    LET kept == SelectSeq(bs, WellFormed)
    IN  [i \in 1..Len(kept) |-> EntryOf(kept[i])]

WellFormedAsStated(b) == IndexIsNumber(b) /\ HasArrow(b) /\ ThreeFields(b) /\ HasText(b)
WellFormedSpaced(b) == WellFormedAsStated(b) /\ ArrowSpaced(b)

\* C8 as stated: parse_srt returns exactly the blocks that have a numeric index line,
\* a timestamp line containing --> (with 3 colon-delimited fields in each timestamp)
\* and at least one text line, in file order; the other blocks are skipped and the
\* blocks around them are still returned.
C8_ReturnsBlocksWithArrow ==
    pc = "parsed" => entries = EntriesOfBlocks(file_blocks, WellFormedAsStated)

\* C8 amended: parse_srt returns exactly the blocks that have a numeric index line, a
\* timestamp line of two timestamps joined by " --> " (the arrow with a space on each
\* side, each timestamp of 3 numeric colon-delimited fields) and at least one text
\* line, in file order; every other block, one whose arrow is not spaced included, is
\* skipped and the blocks around it are still returned.
C8_ReturnsBlocksWithSpacedArrow ==
    pc = "parsed" => entries = EntriesOfBlocks(file_blocks, WellFormedSpaced)

C8_Witness ==
    /\ pc = "parsed"
    /\ Len(file_blocks) = 3
    /\ WellFormedSpaced(file_blocks[1]) /\ ~ThreeFields(file_blocks[2])
    /\ WellFormedSpaced(file_blocks[3])
    /\ Len(entries) = 2

(***************************************************************************)
(* Validator run: validate_format on a list of entries, then main's        *)
(* display of the issues.                                                  *)
(***************************************************************************)
\* (start, end) in seconds and text of the entries a list is drawn from: two that
\* overlap, one that touches the first and lies in the second, one far later, one
\* that ends before it starts
EntryPool ==
    {<<0, 2 * TicksPerSec, <<"a">>>>,
     <<TicksPerSec, 3 * TicksPerSec, <<"b">>>>,
     <<2 * TicksPerSec, 3 * TicksPerSec, <<"O", "n", "e">>>>,
     <<5 * TicksPerSec, 6 * TicksPerSec, <<"t", "w", "o", ".">>>>,
     <<3 * TicksPerSec, TicksPerSec, <<"a">>>>}

ExpectedPool == {NoExpected, [given |-> TRUE, words |-> <<<<"a">>, <<"o", "n", "e">>>>]}

SRTEntry(i, e) == [index |-> i, start |-> e[1], end |-> e[2], text |-> e[3], raw_text |-> e[3]]

InitValidate ==
    /\ pc = "parsed"
    /\ \E n \in 0..MaxEntries : \E es \in [1..n -> EntryPool] :
           entries = [i \in 1..n |-> SRTEntry(i, es[i])]
    /\ argv = NoExpected
    /\ NoEnhancer
    /\ expected_words \in ExpectedPool
    /\ results = NoReport
    /\ shown = <<>>
    /\ segments = <<>>
    /\ word_highlight = FALSE
    /\ f = <<>>
    /\ file_blocks = <<>>
    /\ content = <<>>
    /\ seconds = 0
    /\ time_str = <<>>
    /\ decoded = Fail
    /\ NoTranscriber

\* results = validate_format(entries, expected_words)
ValidateFormat ==
    /\ pc = "parsed"
    /\ results' = validate_format(entries, expected_words)
    /\ pc' = "validated"
    /\ UNCHANGED <<transcriberVars,
                   argv, expected_words, shown, srtVars, codecVars, enhanceVars>>

\* main's display of the issues found
ShowIssues ==
    /\ pc = "validated"
    /\ shown' = OverlapsShown(results.issues)
    /\ pc' = "shown"
    /\ UNCHANGED <<transcriberVars,
                   argv, expected_words, results, srtVars, codecVars, enhanceVars>>

NextValidate == ValidateFormat \/ ShowIssues

SpecValidate == InitValidate /\ [][NextValidate]_vars

(***************************************************************************)
(* Properties of the validator run.                                        *)
(***************************************************************************)
Validated == pc \in {"validated", "shown"}

IssuesOfType(report, t) == SelectSeq(report.issues, LAMBDA x : x.type = t)

CountOfType(report, t) ==
    IF IssuesOfType(report, t) = <<>> THEN 0 ELSE IssuesOfType(report, t)[1].count

\* the pairs of positions whose entries a, b have a.start < b.end and b.start < a.end
OverlappingPositions ==
    {p \in (1..Len(entries)) \X (1..Len(entries)) :
        /\ p[1] < p[2]
        /\ entries[p[1]].start < entries[p[2]].end
        /\ entries[p[2]].start < entries[p[1]].end}

\* the positions i whose entry ends after the entry at i + 1 starts
NonSequentialPositions ==
    {i \in 1..(Len(entries) - 1) : entries[i].end > entries[i + 1].start}

Swapped(es, i, j) ==
    [k \in 1..Len(es) |-> IF k = i THEN es[j] ELSE IF k = j THEN es[i] ELSE es[k]]

AtMostThree(n) == IF n < 3 THEN n ELSE 3

\* C9: the report has an OVERLAPPING_ENTRIES issue exactly when two distinct entries
\* a, b have a.start < b.end and b.start < a.end; its count is the number of such
\* unordered pairs and is the same for the entries listed in another order; it
\* carries at most 3 example pairs, and the amount shown for a pair (a, b) is
\* max(0, a.end - b.start). For (0.0 to 2.0), (1.0 to 3.0): one issue, count 1,
\* amount 1.0.
C9_OverlapIssue ==
    Validated =>
        LET ov == IssuesOfType(results, "OVERLAPPING_ENTRIES")
            n == Cardinality(OverlappingPositions)
        IN  /\ Len(ov) = (IF n > 0 THEN 1 ELSE 0)
            /\ n > 0 =>
                   /\ ov[1].count = n
                   /\ Len(ov[1].examples) = AtMostThree(n)
                   /\ \A k \in 1..Len(ov[1].examples) :
                          \E p \in OverlappingPositions :
                              ov[1].examples[k] = <<entries[p[1]], entries[p[2]]>>
            /\ \A i, j \in 1..Len(entries) :
                   CountOfType(validate_format(Swapped(entries, i, j), expected_words),
                               "OVERLAPPING_ENTRIES") = n
            /\ pc = "shown" =>
                   /\ Len(shown) = AtMostThree(n)
                   /\ \A k \in 1..Len(shown) :
                          LET a == ov[1].examples[k][1]
                              b == ov[1].examples[k][2]
                          IN  shown[k] = (IF a.end - b.start > 0 THEN a.end - b.start ELSE 0)
            /\ ( /\ Len(entries) = 2
                 /\ entries[1].start = 0 /\ entries[1].end = 2 * TicksPerSec
                 /\ entries[2].start = TicksPerSec /\ entries[2].end = 3 * TicksPerSec ) =>
                   /\ Len(ov) = 1 /\ ov[1].count = 1
                   /\ pc = "shown" => shown = <<TicksPerSec>>

C9_Witness ==
    /\ pc = "shown"
    /\ Len(entries) = 4
    /\ CountOfType(results, "OVERLAPPING_ENTRIES") = 4
    /\ Len(shown) = 3
    /\ \E k \in 1..3 : shown[k] = TicksPerSec

\* C10: the report has a NON_SEQUENTIAL issue exactly when some adjacent pair in the
\* given order has entries[i].end > entries[i+1].start; its count is the number of
\* such adjacent pairs, whatever the pairs that are not adjacent do.
C10_NonSequentialIssue ==
    Validated =>
        LET ns == IssuesOfType(results, "NON_SEQUENTIAL")
            n == Cardinality(NonSequentialPositions)
        IN  /\ Len(ns) = (IF n > 0 THEN 1 ELSE 0)
            /\ n > 0 => ns[1].count = n

C10_Witness ==
    /\ Validated
    /\ Len(entries) = 3
    /\ entries[1].end > entries[3].start
    /\ entries[1].end <= entries[2].start
    /\ CountOfType(results, "NON_SEQUENTIAL") = 1

\* the positions i whose entry ends after the entry at i + 1 starts although the
\* entry at i + 1 ends no later than the entry at i starts: it lies wholly behind
BehindPositions ==
    {i \in NonSequentialPositions : entries[i + 1].end <= entries[i].start}

\* C26 as stated: every adjacent pair counted as non-sequential is also counted as
\* overlapping, so a report with a NON_SEQUENTIAL issue has an OVERLAPPING_ENTRIES
\* issue whose count is at least as great.
C26_NonSequentialWithinOverlap ==
    Validated =>
        /\ \A i \in NonSequentialPositions : <<i, i + 1>> \in OverlappingPositions
        /\ CountOfType(results, "NON_SEQUENTIAL") > 0 =>
               /\ CountOfType(results, "OVERLAPPING_ENTRIES") > 0
               /\ CountOfType(results, "OVERLAPPING_ENTRIES")
                      >= CountOfType(results, "NON_SEQUENTIAL")

\* C26 amended: an adjacent pair counted as non-sequential is also counted as
\* overlapping unless the second entry lies wholly behind the first (it ends no
\* later than the first starts). The NON_SEQUENTIAL count is at most the
\* OVERLAPPING_ENTRIES count plus the number of such pairs; with none of them a
\* NON_SEQUENTIAL issue comes with an OVERLAPPING_ENTRIES issue of at least its
\* count, and a list of two entries the second wholly behind the first is reported
\* as NON_SEQUENTIAL and not as OVERLAPPING_ENTRIES.
C26_NonSequentialOverlapsUnlessBehind ==
    Validated =>
        LET ns == CountOfType(results, "NON_SEQUENTIAL")
            ov == CountOfType(results, "OVERLAPPING_ENTRIES")
            behind == Cardinality(BehindPositions)
        IN  /\ \A i \in NonSequentialPositions :
                   <<i, i + 1>> \in OverlappingPositions <=> i \notin BehindPositions
            /\ ns <= ov + behind
            /\ behind = 0 /\ ns > 0 => ov >= ns
            /\ Len(entries) = 2 /\ behind = 1 => ns = 1 /\ ov = 0

\* three entries: the second wholly behind the first, the third overlapping the
\* second; two pairs are non-sequential and one overlaps
C26_Witness ==
    /\ Validated
    /\ Len(entries) = 3
    /\ BehindPositions = {1}
    /\ NonSequentialPositions = {1, 2}
    /\ CountOfType(results, "NON_SEQUENTIAL") = 2
    /\ CountOfType(results, "OVERLAPPING_ENTRIES") = 1

(***************************************************************************)
(* Word-coverage run: a subtitle file and expected words, given either to  *)
(* parse_srt and validate_format directly or to main's command line.       *)
(***************************************************************************)
MaxLines == 2       \* blocks of the subtitle file of the word-coverage run

WordTexts ==
    {<<"o", "n", "e">>,
     <<"!", "O", "n", "e", ".">>,
     <<"b", ",", " ", "b", " ", ".", ".", ".">>,
     <<"t", "w", "o">>}

ArgvPool ==
    {NoExpected,
     [given |-> TRUE, words |-> <<>>],
     [given |-> TRUE, words |-> <<<<"o", "n", "e">>>>],
     [given |-> TRUE, words |-> <<<<"O", "n", "e">>>>],
     [given |-> TRUE, words |-> <<<<"o", "n", "e">>, <<"t", "w", "o">>>>]}

\* the i-th block: half a second long, starting at second i
WordBlock(i, text) ==
    [index |-> NatStr(i),
     stamps |-> _format_srt_time(i * TicksPerSec) \o Arrow
                    \o _format_srt_time(i * TicksPerSec + TicksPerSec \div 2),
     text |-> <<text>>]

InitWords ==
    /\ pc = "saved"
    /\ \E n \in 0..MaxLines : \E ts \in [1..n -> WordTexts] :
           file_blocks = [i \in 1..n |-> WordBlock(i, ts[i])]
    /\ content = FileOfBlocks(file_blocks)
    /\ argv \in ArgvPool
    /\ NoEnhancer
    /\ expected_words = argv
    /\ entries = <<>>
    /\ results = NoReport
    /\ shown = <<>>
    /\ segments = <<>>
    /\ word_highlight = FALSE
    /\ f = <<>>
    /\ seconds = 0
    /\ time_str = <<>>
    /\ decoded = Fail
    /\ NoTranscriber

\* main from its parsing of the command line on: the expected words, parse_srt,
\* validate_format, the display of the issues and the exit code
Main ==
    /\ pc = "saved"
    /\ expected_words' = ExpectedFromArgv(argv)
    /\ entries' = parse_srt(content)
    /\ IF entries' = <<>>
       THEN /\ pc' = "exit1"
            /\ UNCHANGED <<results, shown>>
       ELSE /\ results' = validate_format(entries', expected_words')
            /\ shown' = OverlapsShown(results'.issues)
            /\ pc' = IF Len(results'.issues) > 0 THEN "exit1" ELSE "exit0"
    /\ UNCHANGED <<transcriberVars,
                   argv, segments, word_highlight, f, file_blocks, content, codecVars, enhanceVars>>

NextWords == ParseSrt \/ ValidateFormat \/ Main

SpecWords == InitWords /\ [][NextWords]_vars

(***************************************************************************)
(* Properties of the word-coverage run.                                    *)
(***************************************************************************)
\* validate_format has returned: called directly, or from main
CalledDirectly == pc = "validated"
CalledFromMain == pc \in {"exit0", "exit1"} /\ entries # <<>>

WarningsOfType(report, t) == SelectSeq(report.warnings, LAMBDA x : x.type = t)

RECURSIVE DropLeading(_)
DropLeading(w) ==
    IF w # <<>> /\ Head(w) \in Punctuation THEN DropLeading(Tail(w)) ELSE w

RECURSIVE DropTrailing(_)
DropTrailing(w) ==
    IF w # <<>> /\ w[Len(w)] \in Punctuation
    THEN DropTrailing(SubSeq(w, 1, Len(w) - 1)) ELSE w

\* the whitespace-split tokens of every entry's plain text in order, each lower-cased
\* and cleaned by Clean, the tokens of which nothing is left dropped
TokensOf(e, Clean(_)) ==
    LET ws == SplitWhitespace(e.text)
        cleaned == [k \in 1..Len(ws) |-> Clean(Lower(ws[k]))]
    IN  SelectSeq(cleaned, IsNonEmpty)

TokensFrom(es, Clean(_)) == Concat([i \in 1..Len(es) |-> TokensOf(es[i], Clean)])

TrailingStripped(w) == DropTrailing(w)
BothEndsStripped(w) == DropLeading(DropTrailing(w))

\* the report says about the words what found, the tokens found, calls for
WordReportFor(found) ==
    LET expected == Range(expected_words.words)
        missing == expected \ Range(found)
        extra == SelectSeq(found, LAMBDA w : w \notin expected)
        mw == IssuesOfType(results, "MISSING_WORDS")
        ew == WarningsOfType(results, "EXTRA_WORDS")
    IN  /\ Len(mw) = (IF missing # {} THEN 1 ELSE 0)
        /\ missing # {} => mw[1].words = missing /\ mw[1].count = Cardinality(missing)
        /\ Len(ew) = (IF extra # <<>> THEN 1 ELSE 0)
        /\ extra # <<>> => ew[1].words = extra /\ ew[1].count = Len(extra)

WordsSupplied == expected_words.given /\ expected_words.words # <<>>

\* C11 as stated: when expected words are supplied, the found tokens are the
\* whitespace-split tokens of the plain texts, lower-cased and stripped of trailing
\* punctuation; MISSING_WORDS is reported iff expected minus found is non-empty and
\* lists that set; EXTRA_WORDS is reported iff some found token is not expected and
\* lists every such token in order, duplicates kept.
C11_TrailingPunctuationStripped ==
    ((CalledDirectly \/ CalledFromMain) /\ WordsSupplied) =>
        WordReportFor(TokensFrom(entries, TrailingStripped))

\* C11 amended: when a non-empty list of expected words is supplied, the found tokens
\* are the whitespace-split tokens of the plain texts, lower-cased and stripped of the
\* punctuation characters .,!?;: at both ends, tokens of which nothing is left being
\* dropped; MISSING_WORDS is reported iff expected minus found is non-empty and lists
\* that set; EXTRA_WORDS is reported iff some found token is not expected and lists
\* every such token in order, duplicates kept; with no list or an empty list neither
\* is reported.
C11_BothEndsPunctuationStripped ==
    (CalledDirectly \/ CalledFromMain) =>
        IF WordsSupplied
        THEN WordReportFor(TokensFrom(entries, BothEndsStripped))
        ELSE /\ IssuesOfType(results, "MISSING_WORDS") = <<>>
             /\ WarningsOfType(results, "EXTRA_WORDS") = <<>>

C11_Witness ==
    /\ CalledDirectly
    /\ Len(entries) = 2
    /\ entries[1].text = <<"!", "O", "n", "e", ".">>
    /\ expected_words.words = <<<<"o", "n", "e">>, <<"t", "w", "o">>>>
    /\ Len(IssuesOfType(results, "MISSING_WORDS")) = 1
    /\ IssuesOfType(results, "MISSING_WORDS")[1].words = {<<"t", "w", "o">>}
    /\ Len(WarningsOfType(results, "EXTRA_WORDS")) = 1
    /\ WarningsOfType(results, "EXTRA_WORDS")[1].words = <<<<"b">>, <<"b">>>>

\* an expected word w and a found token t that differ only in letter case are
\* matched: w is not reported missing and t is not reported extra
MatchedIgnoringCase(given) ==
    LET found == TokensFrom(entries, BothEndsStripped)
        mw == IssuesOfType(results, "MISSING_WORDS")
        ew == WarningsOfType(results, "EXTRA_WORDS")
    IN  \A i \in 1..Len(given.words) : \A k \in 1..Len(found) :
            Lower(given.words[i]) = Lower(found[k]) =>
                /\ mw # <<>> => /\ given.words[i] \notin mw[1].words
                                /\ Lower(given.words[i]) \notin mw[1].words
                /\ ew # <<>> => found[k] \notin Range(ew[1].words)

\* C12 as stated: word-coverage matching in the validator is case-insensitive, for
\* the expected words validate_format is given as for those on main's command line;
\* for expected word "One" and entry text "one" the report has neither MISSING_WORDS
\* nor EXTRA_WORDS.
C12_CaseInsensitiveInValidator ==
    /\ CalledDirectly => MatchedIgnoringCase(expected_words)
    /\ CalledFromMain => MatchedIgnoringCase(argv)

\* C12 amended: matching is case-insensitive for the expected words on main's command
\* line, which main lower-cases before it calls validate_format (--expected One and
\* entry text "one": neither MISSING_WORDS nor EXTRA_WORDS); validate_format itself
\* lower-cases the found tokens only and compares them with the expected words as
\* given, so an expected word with an upper-case letter is always reported missing
\* and a token that differs from it only in case is reported extra.
C12_CaseInsensitiveThroughMain ==
    /\ CalledFromMain => MatchedIgnoringCase(argv)
    /\ CalledDirectly =>
           LET found == TokensFrom(entries, BothEndsStripped)
               mw == IssuesOfType(results, "MISSING_WORDS")
               ew == WarningsOfType(results, "EXTRA_WORDS")
           IN  \A i \in 1..Len(expected_words.words) :
                   LET w == expected_words.words[i]
                   IN  w # Lower(w) =>
                           /\ mw # <<>> /\ w \in mw[1].words
                           /\ \A k \in 1..Len(found) : found[k] = Lower(w) =>
                                  ew # <<>> /\ found[k] \in Range(ew[1].words)

C12_Witness ==
    /\ CalledFromMain
    /\ argv.words = <<<<"O", "n", "e">>>>
    /\ Len(entries) = 1 /\ entries[1].text = <<"o", "n", "e">>
    /\ IssuesOfType(results, "MISSING_WORDS") = <<>>
    /\ WarningsOfType(results, "EXTRA_WORDS") = <<>>
    /\ pc = "exit0"

(***************************************************************************)
(* Duration-and-gap run: validate_format on entries whose durations and    *)
(* gaps lie on and next to the thresholds of 0.1 s, 10 s and 2 s.          *)
(***************************************************************************)
MaxTimed == 3       \* entries of the duration-and-gap run

Tenth == TicksPerSec \div 10

\* (start, end, text): 0 to 2 s; 5 to 6 s; exactly 0.1 s long, exactly 2 s after the
\* second; just under 0.1 s long, inside the first; exactly 10 s long; just over
\* 10 s long
TimedPool ==
    {<<0, 2 * TicksPerSec, <<"a">>>>,
     <<5 * TicksPerSec, 6 * TicksPerSec, <<"a">>>>,
     <<8 * TicksPerSec, 8 * TicksPerSec + Tenth, <<"a">>>>,
     <<TicksPerSec, TicksPerSec + Tenth - 1, <<"a">>>>,
     <<0, 10 * TicksPerSec, <<"a">>>>,
     <<0, 10 * TicksPerSec + 1, <<"x">>>>}

TimedExpectedPool ==
    {NoExpected, [given |-> TRUE, words |-> <<<<"a">>, <<"o", "n", "e">>>>]}

InitTimed ==
    /\ pc = "parsed"
    /\ \E n \in 0..MaxTimed : \E es \in [1..n -> TimedPool] :
           entries = [i \in 1..n |-> SRTEntry(i, es[i])]
    /\ argv = NoExpected
    /\ NoEnhancer
    /\ expected_words \in TimedExpectedPool
    /\ results = NoReport
    /\ shown = <<>>
    /\ segments = <<>>
    /\ word_highlight = FALSE
    /\ f = <<>>
    /\ file_blocks = <<>>
    /\ content = <<>>
    /\ seconds = 0
    /\ time_str = <<>>
    /\ decoded = Fail
    /\ NoTranscriber

NextTimed == ValidateFormat \/ ShowIssues

SpecTimed == InitTimed /\ [][NextTimed]_vars

(***************************************************************************)
(* Properties of the duration-and-gap run.                                 *)
(***************************************************************************)
IssueKinds == {"OVERLAPPING_ENTRIES", "NON_SEQUENTIAL", "MISSING_WORDS"}
WarningKinds == {"VERY_SHORT_DURATION", "VERY_LONG_DURATION", "EXTRA_WORDS", "LARGE_GAPS"}

KindsOf(q) == {q[i].type : i \in 1..Len(q)}

WarningCount(report, t) ==
    IF WarningsOfType(report, t) = <<>> THEN 0 ELSE WarningsOfType(report, t)[1].count

\* the positions i whose entry ends more than 2 s before the entry at i + 1 starts
LargeGapPositions ==
    {i \in 1..(Len(entries) - 1) : entries[i + 1].start - entries[i].end > 2 * TicksPerSec}

\* the positions of the entries shorter than 0.1 s, and of those longer than 10 s
ShortPositions == {i \in 1..Len(entries) : 10 * (entries[i].end - entries[i].start) < TicksPerSec}
LongPositions == {i \in 1..Len(entries) : entries[i].end - entries[i].start > 10 * TicksPerSec}

\* exactly one warning of kind t when n > 0, with count n, and none when n = 0
WarnsExactly(t, n) ==
    /\ Len(WarningsOfType(results, t)) = (IF n > 0 THEN 1 ELSE 0)
    /\ WarningCount(results, t) = n

\* C13: the report has a LARGE_GAPS warning exactly when some adjacent pair has
\* next.start - current.end > 2.0 s, with count the number of such pairs; a gap adds
\* no issue, and no adjacent pair is counted both as non-sequential and as a large
\* gap. For (0.0 to 2.0), (5.0 to 6.0) and no expected words: zero issues and exactly
\* one warning, of kind LARGE_GAPS.
C13_LargeGapsWarning ==
    Validated =>
        /\ WarnsExactly("LARGE_GAPS", Cardinality(LargeGapPositions))
        /\ "LARGE_GAPS" \notin KindsOf(results.issues)
        /\ CountOfType(results, "NON_SEQUENTIAL") = Cardinality(NonSequentialPositions)
        /\ CountOfType(results, "NON_SEQUENTIAL") + WarningCount(results, "LARGE_GAPS")
               = Cardinality(NonSequentialPositions \cup LargeGapPositions)
        /\ ( /\ Len(entries) = 2 /\ ~expected_words.given
             /\ entries[1].start = 0 /\ entries[1].end = 2 * TicksPerSec
             /\ entries[2].start = 5 * TicksPerSec /\ entries[2].end = 6 * TicksPerSec ) =>
               /\ results.issues = <<>>
               /\ Len(results.warnings) = 1
               /\ results.warnings[1].type = "LARGE_GAPS"

C13_Witness ==
    /\ Validated
    /\ Len(entries) = 3
    /\ entries[2].start - entries[1].end > 2 * TicksPerSec
    /\ entries[3].start - entries[2].end = 2 * TicksPerSec
    /\ WarningCount(results, "LARGE_GAPS") = 1

\* C14: the report has a VERY_SHORT_DURATION warning exactly when some entry has
\* end - start < 0.1 s and a VERY_LONG_DURATION warning exactly when some entry has
\* end - start > 10.0 s, each with count the number of such entries; an entry lasting
\* exactly 0.1 s or exactly 10.0 s triggers neither; neither kind is among the issues.
C14_DurationWarnings ==
    Validated =>
        /\ WarnsExactly("VERY_SHORT_DURATION", Cardinality(ShortPositions))
        /\ WarnsExactly("VERY_LONG_DURATION", Cardinality(LongPositions))
        /\ (\A i \in 1..Len(entries) :
                \/ entries[i].end - entries[i].start = Tenth
                \/ entries[i].end - entries[i].start = 10 * TicksPerSec) =>
               /\ WarningsOfType(results, "VERY_SHORT_DURATION") = <<>>
               /\ WarningsOfType(results, "VERY_LONG_DURATION") = <<>>
        /\ KindsOf(results.issues) \cap {"VERY_SHORT_DURATION", "VERY_LONG_DURATION"} = {}

C14_Witness ==
    /\ Validated
    /\ Len(entries) = 3
    /\ entries[1].end - entries[1].start = Tenth
    /\ entries[2].end - entries[2].start = Tenth - 1
    /\ entries[3].end - entries[3].start = 10 * TicksPerSec
    /\ WarningCount(results, "VERY_SHORT_DURATION") = 1
    /\ WarningCount(results, "VERY_LONG_DURATION") = 0

\* the kinds the entries and the expected words call for, each check taken alone
KindsCalledFor ==
    LET found == TokensFrom(entries, BothEndsStripped)
        expected == Range(expected_words.words)
    IN  (IF OverlappingPositions # {} THEN {"OVERLAPPING_ENTRIES"} ELSE {})
        \cup (IF NonSequentialPositions # {} THEN {"NON_SEQUENTIAL"} ELSE {})
        \cup (IF WordsSupplied /\ expected \ Range(found) # {}
              THEN {"MISSING_WORDS"} ELSE {})
        \cup (IF ShortPositions # {} THEN {"VERY_SHORT_DURATION"} ELSE {})
        \cup (IF LongPositions # {} THEN {"VERY_LONG_DURATION"} ELSE {})
        \cup (IF WordsSupplied /\ Range(found) \ expected # {}
              THEN {"EXTRA_WORDS"} ELSE {})
        \cup (IF LargeGapPositions # {} THEN {"LARGE_GAPS"} ELSE {})

\* C15: for every entry list, the empty one included, validate_format returns a
\* report (for the empty list: no entries, duration 0, no warning and no issue but
\* the expected words being missing); its issues are
\* of the kinds OVERLAPPING_ENTRIES, NON_SEQUENTIAL, MISSING_WORDS and its warnings of
\* the kinds VERY_SHORT_DURATION, VERY_LONG_DURATION, EXTRA_WORDS, LARGE_GAPS, each
\* kind at most once; and each kind is reported exactly when its own check calls for
\* it, whatever the other checks found.
C15_ReportAlwaysComplete ==
    Validated =>
        /\ results.num_entries = Len(entries)
        /\ entries = <<>> =>
               /\ results.total_duration = 0
               /\ results.warnings = <<>>
               /\ KindsOf(results.issues) \subseteq {"MISSING_WORDS"}
        /\ KindsOf(results.issues) \subseteq IssueKinds
        /\ KindsOf(results.warnings) \subseteq WarningKinds
        /\ Cardinality(KindsOf(results.issues)) = Len(results.issues)
        /\ Cardinality(KindsOf(results.warnings)) = Len(results.warnings)
        /\ KindsOf(results.issues) \cup KindsOf(results.warnings) = KindsCalledFor

C15_Witness ==
    /\ Validated
    /\ KindsOf(results.issues) = IssueKinds
    /\ KindsOf(results.warnings) = WarningKinds

(***************************************************************************)
(* LLM enhancement: ChineseEnhancer and enhance_srt (baobao/enhance.py).   *)
(* Each character of a phrase stands for one Chinese character.            *)
(***************************************************************************)
\* OutputFormat.value
FormatValue(fmt) ==
    IF fmt = "full" THEN <<"f", "u", "l", "l">>
    ELSE IF fmt = "emoji" THEN <<"e", "m", "o", "j", "i">>
    ELSE <<"l", "e", "a", "r", "n">>

\* re.sub(r"<[^>]+>", "", text).strip()
CleanText(text) == Strip(StripTags(text))

\* f"{self.config.output_format.value}:{clean_text}"
CacheKey(fmt, clean_text) == FormatValue(fmt) \o <<":">> \o clean_text

\* an interpretation dict; learn says whether it has the keys pinyin_spaced,
\* literal_gloss and sing_along_tip
Interpretation(pinyin, english, word_details, learn, literal_gloss, sing_along_tip) ==
    [pinyin |-> pinyin, english |-> english, word_details |-> word_details,
     learn |-> learn, pinyin_spaced |-> IF learn THEN pinyin ELSE <<>>,
     literal_gloss |-> literal_gloss, sing_along_tip |-> sing_along_tip]

\* {"pinyin": "", "english": "", "word_details": []}
EmptyInterpretation == Interpretation(<<>>, <<>>, <<>>, FALSE, <<>>, <<>>)

Unknown == <<"?">>

NonSpaceChars(clean_text) == SelectSeq(clean_text, LAMBDA c : ~IsSpace(c))

\* the breakdown of the fallback with one unit for every character, blanks included
FallbackDetailsAllChars(clean_text) ==
    [k \in 1..Len(clean_text) |->
        [char |-> <<clean_text[k]>>, pinyin |-> Unknown, english |-> Unknown]]

\* [{"char": c, "pinyin": "?", "english": "?"} for c in clean_text if c.strip()]
FallbackDetails(clean_text) ==
    [k \in 1..Len(NonSpaceChars(clean_text)) |->
        [char |-> <<NonSpaceChars(clean_text)[k]>>, pinyin |-> Unknown, english |-> Unknown]]

\* the fallback dict of interpret_phrase and of _interpret_for_learning
Fallback(clean_text, learn) ==
    Interpretation(clean_text, Unknown, FallbackDetails(clean_text), learn,
                   IF learn THEN Unknown ELSE <<>>, <<>>)

\* what client.create can do for a phrase: raise, or return one of two answers
Replies == {"error", "good", "bare"}

\* the answer of the collaborator, a PhraseInterpretation or a LearningLyricLine:
\* "good" has one unit per character, a gloss and a tip; "bare" has no unit, an
\* empty gloss and an empty tip
LlmAnswer(reply, clean_text) ==
    LET cs == NonSpaceChars(clean_text)
        units == [k \in 1..Len(cs) |->
                     [char |-> <<cs[k]>>, pinyin |-> <<"p", cs[k]>>, english |-> <<"e">>]]
    IN  IF reply = "good"
        THEN [pinyin |-> Join([k \in 1..Len(units) |-> units[k].pinyin], <<" ">>),
              english |-> <<"E">>, word_details |-> units,
              literal_gloss |-> <<"G">>, sing_along_tip |-> <<"T">>]
        ELSE [pinyin |-> <<"P">>, english |-> <<"E">>, word_details |-> <<>>,
              literal_gloss |-> <<>>, sing_along_tip |-> <<>>]

\* ChineseEnhancer._interpret_for_learning: the dict cached and returned
_interpret_for_learning(clean_text, reply) ==
    IF reply = "error" THEN Fallback(clean_text, TRUE)
    ELSE LET result == LlmAnswer(reply, clean_text)
         IN  Interpretation(result.pinyin, result.english, result.word_details, TRUE,
                            result.literal_gloss, result.sing_along_tip)

\* interpret_phrase not caching the fallback of a failed call
InterpretPhraseFallbackUncached(cache, fmt, chinese_text, reply) ==
    LET clean_text == CleanText(chinese_text)
        cache_key == CacheKey(fmt, clean_text)
        result == LlmAnswer(reply, clean_text)
        result_dict ==
            IF fmt = "learn" THEN _interpret_for_learning(clean_text, reply)
            ELSE IF reply = "error" THEN Fallback(clean_text, FALSE)
            ELSE Interpretation(result.pinyin, result.english, result.word_details,
                                FALSE, <<>>, <<>>)
    IN  IF clean_text = <<>>
        THEN [cache |-> cache, called |-> <<>>, result |-> EmptyInterpretation]
        ELSE IF cache_key \in DOMAIN cache
        THEN [cache |-> cache, called |-> <<>>, result |-> cache[cache_key]]
        ELSE [cache |-> IF reply = "error" THEN cache
                        ELSE (cache_key :> result_dict) @@ cache,
              called |-> <<clean_text>>, result |-> result_dict]

\* interpret_phrase looking nothing up in the cache
InterpretPhraseUncached(cache, fmt, chinese_text, reply) ==
    LET clean_text == CleanText(chinese_text)
        cache_key == CacheKey(fmt, clean_text)
        result == LlmAnswer(reply, clean_text)
        result_dict ==
            IF fmt = "learn" THEN _interpret_for_learning(clean_text, reply)
            ELSE IF reply = "error" THEN Fallback(clean_text, FALSE)
            ELSE Interpretation(result.pinyin, result.english, result.word_details,
                                FALSE, <<>>, <<>>)
    IN  IF clean_text = <<>>
        THEN [cache |-> cache, called |-> <<>>, result |-> EmptyInterpretation]
        ELSE [cache |-> (cache_key :> result_dict) @@ cache, called |-> <<clean_text>>,
              result |-> result_dict]

\* ChineseEnhancer.interpret_phrase on a cache, reply being what client.create does
\* if it is called: the cache afterwards, the phrase client.create was called for
\* (none: <<>>), and the dict returned
interpret_phrase(cache, fmt, chinese_text, reply) ==
    LET clean_text == CleanText(chinese_text)
        cache_key == CacheKey(fmt, clean_text)
        result == LlmAnswer(reply, clean_text)
        result_dict ==
            IF fmt = "learn" THEN _interpret_for_learning(clean_text, reply)
            ELSE IF reply = "error" THEN Fallback(clean_text, FALSE)
            ELSE Interpretation(result.pinyin, result.english, result.word_details,
                                FALSE, <<>>, <<>>)
    IN  IF clean_text = <<>>
        THEN [cache |-> cache, called |-> <<>>, result |-> EmptyInterpretation]
        ELSE IF cache_key \in DOMAIN cache
        THEN [cache |-> cache, called |-> <<>>, result |-> cache[cache_key]]
        ELSE [cache |-> (cache_key :> result_dict) @@ cache, called |-> <<clean_text>>,
              result |-> result_dict]

FontTag == <<"<", "f", "o", "n", "t">>

\* re.search(r"<font[^>]*>([^<]+)</font>", s) tried at position i: group 1, or <<>>
FontMatchAt(s, i) ==
    IF i + 4 > Len(s) \/ SubSeq(s, i, i + 4) # FontTag THEN <<>>
    ELSE LET gt == Find(s, <<">">>, i + 5)
             lt == IF gt = 0 THEN 0 ELSE Find(s, <<"<">>, gt + 1)
         IN  IF gt = 0 \/ lt = 0 \/ lt = gt + 1 THEN <<>>
             ELSE IF lt + 6 > Len(s) \/ SubSeq(s, lt, lt + 6) # FontClose THEN <<>>
             ELSE SubSeq(s, gt + 1, lt - 1)

\* highlight_match.group(1) if highlight_match else None (None: <<>>)
HighlightedChar(chinese) ==
    LET hits == {i \in 1..Len(chinese) : FontMatchAt(chinese, i) # <<>>}
    IN  IF hits = {} THEN <<>> ELSE FontMatchAt(chinese, Min(hits))

\* format_subtitle_line wrapping only the first unit that equals the highlighted run
FormatSubtitleLineFirstUnit(chinese, interp) ==
    LET highlighted_char == HighlightedChar(chinese)
        pinyin == interp.pinyin
        word_details == interp.word_details
        equal == {k \in 1..Len(word_details) : word_details[k].char = highlighted_char}
        pinyin_parts ==
            [k \in 1..Len(word_details) |->
                IF equal # {} /\ k = Min(equal)
                THEN FontOpen \o word_details[k].pinyin \o FontClose
                ELSE word_details[k].pinyin]
        pinyin_highlighted ==
            IF highlighted_char # <<>> /\ word_details # <<>>
            THEN Join(pinyin_parts, <<" ">>) ELSE pinyin
    IN  [chinese |-> chinese, pinyin |-> pinyin_highlighted, pinyin_plain |-> pinyin,
         english |-> interp.english, word_details |-> word_details]

\* ChineseEnhancer.format_subtitle_line, interp being what its call of
\* interpret_phrase returned
format_subtitle_line(chinese, interp) ==
    LET highlighted_char == HighlightedChar(chinese)
        pinyin == interp.pinyin
        word_details == interp.word_details
        pinyin_parts ==
            [k \in 1..Len(word_details) |->
                IF word_details[k].char = highlighted_char
                THEN FontOpen \o word_details[k].pinyin \o FontClose
                ELSE word_details[k].pinyin]
        pinyin_highlighted ==
            IF highlighted_char # <<>> /\ word_details # <<>>
            THEN Join(pinyin_parts, <<" ">>) ELSE pinyin
    IN  [chinese |-> chinese, pinyin |-> pinyin_highlighted, pinyin_plain |-> pinyin,
         english |-> interp.english, word_details |-> word_details]

\* an entry dict of _parse_srt: the keys it has, and for each key its value or the
\* default that entry.get gives for it
NoEntry == [keys |-> {}, index |-> 0, timestamp |-> <<>>, text |-> <<>>]

\* _parse_srt, the loop over the lines from line i on
RECURSIVE ParseLines(_, _, _)
ParseLines(lines, i, current_entry) ==
    IF i > Len(lines)
    THEN IF current_entry.keys # {} THEN <<current_entry>> ELSE <<>>
    ELSE LET line == Strip(lines[i])
         IN  IF line = <<>>
             THEN IF current_entry.keys # {}
                  THEN <<current_entry>> \o ParseLines(lines, i + 1, NoEntry)
                  ELSE ParseLines(lines, i + 1, current_entry)
             ELSE IF AllDigits(line) /\ current_entry.keys = {}
             THEN ParseLines(lines, i + 1,
                             [current_entry EXCEPT !.keys = @ \cup {"index"},
                                                   !.index = DigitsVal(line)])
             ELSE IF Find(line, <<"-", "-", ">">>, 1) > 0
             THEN ParseLines(lines, i + 1,
                             [current_entry EXCEPT !.keys = @ \cup {"timestamp"},
                                                   !.timestamp = line])
             ELSE IF current_entry.keys # {}
             THEN ParseLines(lines, i + 1,
                             [current_entry EXCEPT !.keys = @ \cup {"text"},
                                                   !.text = @ \o line])
             ELSE ParseLines(lines, i + 1, current_entry)

\* enhance._parse_srt
_parse_srt(text) == ParseLines(Split(text, NL), 1, NoEntry)

Slash == "/"
Dot == "."

\* the positions of a character in a text
Positions(s, c) == {i \in 1..Len(s) : s[i] = c}

\* PurePath.name: the final component of a path
PathName(path) ==
    IF Positions(path, Slash) = {} THEN path
    ELSE SubSeq(path, Max(Positions(path, Slash)) + 1, Len(path))

\* PurePath.suffix: the name from its last dot on, unless that dot is the first or
\* the last character of the name
Suffix(path) ==
    LET name == PathName(path)
        i == IF Positions(name, Dot) = {} THEN 0 ELSE Max(Positions(name, Dot))
    IN  IF 1 < i /\ i < Len(name) THEN SubSeq(name, i, Len(name)) ELSE <<>>

\* PurePath.with_suffix, for a path with a name
with_suffix(path, suffix) ==
    IF Suffix(path) = <<>> THEN path \o suffix
    ELSE SubSeq(path, 1, Len(path) - Len(Suffix(path))) \o suffix

\* suffixes.get(output_format, ".enhanced.srt")
Suffixes(fmt) ==
    IF fmt = "emoji" THEN <<".", "e", "m", "o", "j", "i", ".", "s", "r", "t">>
    ELSE IF fmt = "learn" THEN <<".", "l", "e", "a", "r", "n", ".", "s", "r", "t">>
    ELSE <<".", "e", "n", "h", "a", "n", "c", "e", "d", ".", "s", "r", "t">>

\* srt_path.with_suffix("").with_suffix(suffix)
DefaultOutputPath(path, fmt) == with_suffix(with_suffix(path, <<>>), Suffixes(fmt))

FileSrt == <<"f", "i", "l", "e", ".", "s", "r", "t">>

\* enhance_srt going on whatever check_connection returned
ProceedsUnchecked(connected) == TRUE

\* enhance_srt: `if not enhancer.check_connection(): raise ConnectionError`
Proceeds(connected) == connected

\* enhance_srt: the set of the cleaned texts that are not empty
UniquePhrases(es) == {CleanText(es[i].text) : i \in 1..Len(es)} \ {<<>>}

\* the lines of learn mode in the order of the other modes
LinesSameOrder(fmt, result, interp) ==
    <<result.chinese, result.pinyin,
      IF fmt = "learn"
      THEN (IF interp.sing_along_tip # <<>> THEN interp.sing_along_tip
            ELSE <<"(">> \o (IF interp.learn THEN interp.literal_gloss ELSE interp.english)
                     \o <<")">>)
      ELSE <<"(">> \o result.english \o <<")">>>>

\* enhance_srt: lines, by output_format
Lines(fmt, result, interp) ==
    IF fmt = "learn"
    THEN <<result.pinyin, result.chinese,
           IF interp.sing_along_tip # <<>> THEN interp.sing_along_tip
           ELSE <<"(">> \o (IF interp.learn THEN interp.literal_gloss ELSE interp.english)
                    \o <<")">>>>
    ELSE <<result.chinese, result.pinyin, <<"(">> \o result.english \o <<")">>>>

\* the output entry numbered anew from 1
EnhancedEntryRenumbered(entry, lines, n) ==
    [index |-> n, timestamp |-> entry.timestamp, text |-> Join(lines, NL)]

\* enhance_srt: the dict appended to enhanced_entries, the n-th
EnhancedEntry(entry, lines, n) ==
    [index |-> entry.index, timestamp |-> entry.timestamp, text |-> Join(lines, NL)]

\* enhance_srt: the three f.write calls for one entry
EnhancedBlock(e) == NatStr(e.index) \o NL \o e.timestamp \o NL \o e.text \o NL \o NL

(***************************************************************************)
(* Enhancement run: enhance_srt on a subtitle file, the collaborator       *)
(* answering or failing call by call.                                      *)
(***************************************************************************)
MaxSubs == 2        \* blocks of the subtitle file given to enhance_srt

\* blocks: plain text; the same text with its first character highlighted; a text
\* with a blank inside; no text line
SubPool ==
    {[index |-> <<"1">>, stamps |-> Stamp1 \o Arrow \o Stamp2, text |-> <<<<"a", "b">>>>],
     [index |-> <<"2">>, stamps |-> Stamp1 \o Arrow \o Stamp2,
      text |-> <<FontOpen \o <<"a">> \o FontClose \o <<"b">>>>],
     [index |-> <<"3">>, stamps |-> Stamp1 \o Arrow \o Stamp2, text |-> <<<<"c", " ", "d">>>>],
     [index |-> <<"4">>, stamps |-> Stamp1 \o Arrow \o Stamp2, text |-> <<>>]}

OutputFormat == {"full", "emoji", "learn"}

InitEnhance ==
    /\ pc = "start"
    /\ \E n \in 0..MaxSubs : file_blocks \in [1..n -> SubPool]
    /\ content = FileOfBlocks(file_blocks)
    /\ reachable \in BOOLEAN
    /\ output_format \in OutputFormat
    /\ _cache = <<>>
    /\ calls = <<>>
    /\ unique_phrases = {}
    /\ todo = {}
    /\ enhanced_entries = <<>>
    /\ output = NoFile
    /\ returned = NoReturn
    /\ srt_path = FileSrt
    /\ output_path = None
    /\ entries = <<>>
    /\ segments = <<>>
    /\ word_highlight = FALSE
    /\ f = <<>>
    /\ seconds = 0
    /\ time_str = <<>>
    /\ decoded = Fail
    /\ NoTranscriber
    /\ argv = NoExpected
    /\ expected_words = NoExpected
    /\ results = NoReport
    /\ shown = <<>>

\* ChineseEnhancer.check_connection
check_connection == reachable

\* enhance_srt up to the set of unique phrases
EnhanceSrtBegin ==
    /\ pc = "start"
    /\ IF ~Proceeds(check_connection)
       THEN /\ pc' = "ConnectionError"
            /\ UNCHANGED <<entries, unique_phrases, todo>>
       ELSE LET parsed == _parse_srt(content)
            IN  /\ entries' = parsed
                /\ unique_phrases' = UniquePhrases(parsed)
                /\ todo' = UniquePhrases(parsed)
                /\ pc' = IF UniquePhrases(parsed) = {} THEN "building" ELSE "interpreting"
    /\ UNCHANGED <<transcriberVars,
                   reachable, output_format, _cache, calls, enhanced_entries, output, returned,
                   srt_path, output_path,
                   segments, word_highlight, f, file_blocks, content, codecVars,
                   validateVars>>

\* the client.create calls of one interpret_phrase, with what came of them
Called(r, reply) == [k \in 1..Len(r.called) |-> [phrase |-> r.called[k], reply |-> reply]]

\* enhance_srt, one pass of `for phrase in unique_phrases`
Interpret(phrase, reply) ==
    /\ pc = "interpreting"
    /\ phrase \in todo
    /\ LET r == interpret_phrase(_cache, output_format, phrase, reply)
       IN  /\ _cache' = r.cache
           /\ calls' = calls \o Called(r, reply)
    /\ todo' = todo \ {phrase}
    /\ pc' = IF todo' = {} THEN "building" ELSE "interpreting"
    /\ UNCHANGED <<transcriberVars,
                   reachable, output_format, unique_phrases, enhanced_entries, output,
                   returned, srt_path, output_path, srtVars, codecVars, validateVars>>

\* enhance_srt, one pass of `for entry in entries`: format_subtitle_line with its
\* interpret_phrase, the second interpret_phrase, and the entry appended
BuildEntry(reply1, reply2) ==
    /\ pc = "building"
    /\ Len(enhanced_entries) < Len(entries)
    /\ LET n == Len(enhanced_entries) + 1
           entry == entries[n]
           text == entry.text
           r1 == interpret_phrase(_cache, output_format, CleanText(text), reply1)
           result == format_subtitle_line(text, r1.result)
           r2 == interpret_phrase(r1.cache, output_format, CleanText(text), reply2)
           interp == r2.result
           lines == Lines(output_format, result, interp)
       IN  /\ enhanced_entries' = Append(enhanced_entries, EnhancedEntry(entry, lines, n))
           /\ _cache' = r2.cache
           /\ calls' = calls \o Called(r1, reply1) \o Called(r2, reply2)
    /\ UNCHANGED <<transcriberVars,
                   pc, reachable, output_format, unique_phrases, todo, output, returned,
                   srt_path, output_path, srtVars,
                   codecVars, validateVars>>

\* enhance_srt: the output file written
WriteOutput ==
    /\ pc = "building"
    /\ Len(enhanced_entries) = Len(entries)
    /\ output' = [written |-> TRUE,
                  path |-> IF output_path = None
                           THEN DefaultOutputPath(srt_path, output_format)
                           ELSE output_path,
                  text |-> Concat([i \in 1..Len(enhanced_entries) |->
                                      EnhancedBlock(enhanced_entries[i])])]
    /\ pc' = "done"
    /\ UNCHANGED <<transcriberVars,
                   reachable, output_format, _cache, calls, unique_phrases, todo,
                   enhanced_entries, returned, srt_path, output_path, srtVars, codecVars, validateVars>>

NextEnhance ==
    \/ EnhanceSrtBegin
    \/ \E phrase \in todo : \E reply \in Replies : Interpret(phrase, reply)
    \/ \E reply1, reply2 \in Replies : BuildEntry(reply1, reply2)
    \/ WriteOutput

SpecEnhance == InitEnhance /\ [][NextEnhance]_vars

(***************************************************************************)
(* Properties of the enhancement run.                                      *)
(***************************************************************************)
\* the distinct non-empty cleaned (markup-stripped, trimmed) texts of the entries
CleanedTexts == {Strip(StripTags(entries[i].text)) : i \in 1..Len(entries)} \ {<<>>}

Precomputed == pc \in {"building", "done"}

\* C16: in one enhance_srt run client.create is called at most once for a phrase and
\* only for the distinct non-empty cleaned texts of the entries, whatever the calls
\* return; once the pre-computation is over it has been called exactly once for each
\* of them, and building the output entries adds no call.
C16_OneCallPerUniqueSpan ==
    /\ \A j, k \in 1..Len(calls) : j # k => calls[j].phrase # calls[k].phrase
    /\ \A k \in 1..Len(calls) : calls[k].phrase \in CleanedTexts
    /\ Precomputed => Len(calls) = Cardinality(CleanedTexts)

C16_Witness ==
    /\ pc = "done"
    /\ Len(entries) = 2
    /\ entries[1].text # entries[2].text
    /\ Cardinality(CleanedTexts) = 1
    /\ Len(calls) = 1
    /\ calls[1].reply = "error"

\* the degraded interpretation of a phrase: the phrase as romanization, "?" as
\* translation, one unit per non-whitespace character in order with romanization "?"
\* and gloss "?"; in learn mode the gloss "?" and an empty tip
IsDegraded(d, phrase) ==
    LET chars == SelectSeq(phrase, LAMBDA c : c \notin {" ", "\n"})
    IN  /\ d.pinyin = phrase
        /\ d.english = <<"?">>
        /\ Len(d.word_details) = Len(chars)
        /\ \A k \in 1..Len(chars) :
               /\ d.word_details[k].char = <<chars[k]>>
               /\ d.word_details[k].pinyin = <<"?">>
               /\ d.word_details[k].english = <<"?">>
        /\ output_format = "learn" =>
               d.literal_gloss = <<"?">> /\ d.sing_along_tip = <<>>

\* C17: when client.create fails for a phrase, interpret_phrase returns (and keeps)
\* the degraded interpretation of the phrase, in each of the three modes.
C17_DegradedOnFailure ==
    \A k \in 1..Len(calls) : calls[k].reply = "error" =>
        /\ CacheKey(output_format, calls[k].phrase) \in DOMAIN _cache
        /\ IsDegraded(_cache[CacheKey(output_format, calls[k].phrase)], calls[k].phrase)
        /\ IsDegraded(interpret_phrase(<<>>, output_format, calls[k].phrase, "error").result,
                      calls[k].phrase)

C17_Witness ==
    /\ output_format = "learn"
    /\ \E k \in 1..Len(calls) :
           /\ calls[k].reply = "error"
           /\ calls[k].phrase = <<"c", " ", "d">>
           /\ Len(_cache[CacheKey(output_format, calls[k].phrase)].word_details) = 2

\* the third line of an enhanced entry's text
ThirdLine(e) == Split(e.text, NL)[3]

\* the entries whose cleaned text was sent to a call that failed carry "(?)"
FailuresDegraded ==
    \A i \in 1..Len(enhanced_entries) : \A k \in 1..Len(calls) :
        (calls[k].reply = "error" /\ Strip(StripTags(entries[i].text)) = calls[k].phrase) =>
            ThirdLine(enhanced_entries[i]) = <<"(", "?", ")">>

\* C18 as stated: enhance_srt passes no failure of the collaborator on to its caller:
\* whatever fails, the collaborator being unreachable included, the run does not end
\* in an error and, once over, has written an output file.
C18_NoFailurePropagates ==
    /\ pc # "ConnectionError"
    /\ pc = "done" => output.written

\* what holds of every state of a run, as to failures
FailuresContained ==
    /\ (pc # "start" /\ ~reachable) =>
           /\ pc = "ConnectionError"
           /\ output = NoFile /\ calls = <<>> /\ enhanced_entries = <<>>
    /\ (pc # "start" /\ reachable) => pc \in {"interpreting", "building", "done"}
    /\ pc = "done" => output.written /\ FailuresDegraded

\* the run is over, or the step it is at can be taken: the pre-computation has a
\* phrase left, or the output has an entry left to build or is ready to be written;
\* none of this depends on what a call returns
OverOrCanGoOn ==
    \/ pc \in {"done", "ConnectionError", "start"}
    \/ pc = "interpreting" /\ todo # {} /\ todo \subseteq unique_phrases
    \/ pc = "building" /\ Len(enhanced_entries) <= Len(entries)

\* the steps a run has left at most
StepsLeft ==
    (IF pc = "start" THEN 1 + 2 * Len(file_blocks) ELSE 0)
        + (IF pc \in {"start", "interpreting", "building"} THEN 1 ELSE 0)
        + Cardinality(todo) + (Len(entries) - Len(enhanced_entries))

\* C18 amended: enhance_srt first checks the connection and, when the collaborator
\* is unreachable (or does not list the model), raises ConnectionError before any
\* call, writing no file; once that check has passed, no failure of a call for a
\* phrase is passed on or stops the run: whatever a call returns the next step can
\* be taken, every step leaves fewer steps to take, and the run ends with an output
\* file written, in which the entries of the failed phrases have degraded content.
C18_OnlyConnectionCheckPropagates ==
    /\ [](FailuresContained /\ OverOrCanGoOn /\ StepsLeft >= 0)
    /\ [][StepsLeft' < StepsLeft]_vars

C18_Witness ==
    /\ pc = "done"
    /\ reachable
    /\ Len(calls) = 2
    /\ \A k \in 1..Len(calls) : calls[k].reply = "error"
    /\ output.written /\ output.text # <<>>

\* C19: enhance_srt emits one output entry per parsed input entry (here one per block
\* of the file) in the same order, with the entry's index and timestamp line
\* unchanged and a set of three lines as its text, also when the call for its text
\* failed; the file written holds these entries in that order.
C19_OneOutputEntryPerInputEntry ==
    Precomputed =>
        /\ Len(entries) = Len(file_blocks)
        /\ Len(enhanced_entries) <= Len(entries)
        /\ pc = "done" => Len(enhanced_entries) = Len(entries)
        /\ \A i \in 1..Len(enhanced_entries) :
               /\ enhanced_entries[i].index = entries[i].index
               /\ enhanced_entries[i].index = DigitsVal(file_blocks[i].index)
               /\ enhanced_entries[i].timestamp = entries[i].timestamp
               /\ enhanced_entries[i].timestamp = file_blocks[i].stamps
               /\ Len(Split(enhanced_entries[i].text, NL)) = 3
        /\ pc = "done" =>
               output.text =
                   Concat([i \in 1..Len(entries) |->
                              NatStr(entries[i].index) \o NL \o entries[i].timestamp \o NL
                                  \o enhanced_entries[i].text \o NL \o NL])

C19_Witness ==
    /\ pc = "done"
    /\ Len(entries) = 2
    /\ entries[1].index = 2 /\ entries[2].index = 4
    /\ \E k \in 1..Len(calls) : calls[k].reply = "error"
    /\ Len(enhanced_entries) = 2

\* the interpretation enhance_srt has for the i-th entry
InterpOf(i) ==
    LET clean == Strip(StripTags(entries[i].text))
    IN  IF clean = <<>> THEN EmptyInterpretation ELSE _cache[CacheKey(output_format, clean)]

Parenthesised(x) == <<"(">> \o x \o <<")">>

\* C20: the text of every enhanced entry is three lines: in full and emoji modes the
\* raw text with its highlight, the romanization with highlight, "(" translation ")";
\* in learn mode the romanization with highlight, the raw text, and the tip if it is
\* not empty, otherwise "(" X ")" with X the gloss, or the translation when the
\* interpretation has no gloss field.
C20_ThreeLinesByMode ==
    Precomputed =>
        \A i \in 1..Len(enhanced_entries) :
            LET ls == Split(enhanced_entries[i].text, NL)
                raw == entries[i].text
                interp == InterpOf(i)
                romanization == format_subtitle_line(raw, interp).pinyin
                third == IF interp.sing_along_tip # <<>> THEN interp.sing_along_tip
                         ELSE IF interp.learn THEN Parenthesised(interp.literal_gloss)
                         ELSE Parenthesised(interp.english)
            IN  /\ Len(ls) = 3
                /\ output_format \in {"full", "emoji"} =>
                       ls = <<raw, romanization, Parenthesised(interp.english)>>
                /\ output_format = "learn" => ls = <<romanization, raw, third>>

C20_Witness ==
    /\ pc = "done"
    /\ output_format = "learn"
    /\ Len(enhanced_entries) = 2
    /\ ThirdLine(enhanced_entries[1]) = <<"T">>
    /\ ThirdLine(enhanced_entries[2]) = <<"(", ")">>
    /\ Occurrences(Split(enhanced_entries[1].text, NL)[1], FontOpen) = 1

(***************************************************************************)
(* Phrase run: interpret_phrase and format_subtitle_line called directly,  *)
(* any number of times, on one ChineseEnhancer.                            *)
(***************************************************************************)
\* texts: plain; the first of three characters highlighted, the third equal to
\* it; both characters in one highlighted run; blank; a highlight tag around
\* nothing
PhraseTexts ==
    {<<"a", "b">>,
     FontOpen \o <<"a">> \o FontClose \o <<"b", "a">>,
     FontOpen \o <<"a", "b">> \o FontClose,
     <<" ">>,
     FontOpen \o FontClose \o <<"b">>}

InitPhrases ==
    /\ pc = "ready"
    /\ output_format \in OutputFormat
    /\ reachable = TRUE
    /\ _cache = <<>>
    /\ calls = <<>>
    /\ returned = NoReturn
    /\ srt_path = <<>>
    /\ output_path = None
    /\ unique_phrases = {}
    /\ todo = {}
    /\ enhanced_entries = <<>>
    /\ output = NoFile
    /\ entries = <<>>
    /\ file_blocks = <<>>
    /\ content = <<>>
    /\ segments = <<>>
    /\ word_highlight = FALSE
    /\ f = <<>>
    /\ seconds = 0
    /\ time_str = <<>>
    /\ decoded = Fail
    /\ NoTranscriber
    /\ argv = NoExpected
    /\ expected_words = NoExpected
    /\ results = NoReport
    /\ shown = <<>>

\* a call of ChineseEnhancer.interpret_phrase
InterpretPhrase(chinese_text, reply) ==
    /\ pc = "ready"
    /\ LET r == interpret_phrase(_cache, output_format, chinese_text, reply)
       IN  /\ _cache' = r.cache
           /\ calls' = calls \o Called(r, reply)
           /\ returned' = [op |-> "interpret_phrase", arg |-> chinese_text,
                           value |-> r.result]
    /\ UNCHANGED <<transcriberVars,
                   pc, reachable, output_format, unique_phrases, todo, enhanced_entries,
                   output, srt_path, output_path, srtVars, codecVars, validateVars>>

\* a call of ChineseEnhancer.format_subtitle_line, with its interpret_phrase
FormatSubtitleLine(chinese, reply) ==
    /\ pc = "ready"
    /\ LET clean_text == CleanText(chinese)
           r == interpret_phrase(_cache, output_format, clean_text, reply)
       IN  /\ _cache' = r.cache
           /\ calls' = calls \o Called(r, reply)
           /\ returned' = [op |-> "format_subtitle_line", arg |-> chinese,
                           value |-> format_subtitle_line(chinese, r.result)]
    /\ UNCHANGED <<transcriberVars,
                   pc, reachable, output_format, unique_phrases, todo, enhanced_entries,
                   output, srt_path, output_path, srtVars, codecVars, validateVars>>

NextPhrases ==
    \/ \E chinese_text \in PhraseTexts : \E reply \in Replies :
          InterpretPhrase(chinese_text, reply)
    \/ \E chinese \in PhraseTexts : \E reply \in Replies : FormatSubtitleLine(chinese, reply)

SpecPhrases == InitPhrases /\ [][NextPhrases]_vars

(***************************************************************************)
(* Properties of the phrase run.                                           *)
(***************************************************************************)
\* the run of characters inside the first highlight tag of a text that has a
\* closing tag after it; <<>> if there is none or the run is empty
HighlightRun(text) ==
    LET open == Find(text, FontTag, 1)
        gt == IF open = 0 THEN 0 ELSE Find(text, <<">">>, open)
        close == IF gt = 0 THEN 0 ELSE Find(text, FontClose, gt + 1)
    IN  IF close = 0 THEN <<>> ELSE SubSeq(text, gt + 1, close - 1)

\* the interpretation the enhancer holds for a text
StoredFor(text) ==
    IF CleanText(text) = <<>> THEN EmptyInterpretation
    ELSE _cache[CacheKey(output_format, CleanText(text))]

Wrapped(x) == FontOpen \o x \o FontClose

\* C21: the romanization line format_subtitle_line returns is, when the raw text
\* has a highlighted run and the interpretation of the text has units, the units'
\* romanizations in order joined by single spaces, a unit's romanization wrapped
\* in the highlight tag exactly when the unit's literal form equals the run
\* inside the first highlight tag; otherwise it is the phrase romanization
\* unchanged.
C21_RomanizationLineByExactMatch ==
    returned.op = "format_subtitle_line" =>
        LET interp == StoredFor(returned.arg)
            units == interp.word_details
            run == HighlightRun(returned.arg)
        IN  /\ returned.value.word_details = units
            /\ returned.value.pinyin_plain = interp.pinyin
            /\ returned.value.pinyin =
                  IF run # <<>> /\ units # <<>>
                  THEN Join([k \in 1..Len(units) |->
                                IF units[k].char = run THEN Wrapped(units[k].pinyin)
                                ELSE units[k].pinyin], <<" ">>)
                  ELSE interp.pinyin

\* a text of three units, the first highlighted and the third equal to it, came
\* back with the first and the third romanization wrapped
C21_Witness ==
    /\ returned.op = "format_subtitle_line"
    /\ returned.arg = FontOpen \o <<"a">> \o FontClose \o <<"b", "a">>
    /\ Len(returned.value.word_details) = 3
    /\ returned.value.pinyin =
          Wrapped(<<"p", "a">>) \o <<" ", "p", "b", " ">> \o Wrapped(<<"p", "a">>)

\* the cache key of the call that led to the next state
KeyLookedUp == CacheKey(output_format, CleanText(returned'.arg))

\* what the call that led to the next state got from interpret_phrase
Interpreted ==
    IF returned'.op = "interpret_phrase" THEN returned'.value
    ELSE [pinyin |-> returned'.value.pinyin_plain, english |-> returned'.value.english,
          word_details |-> returned'.value.word_details]

SameInterpretation(got, stored) ==
    /\ got.pinyin = stored.pinyin
    /\ got.english = stored.english
    /\ got.word_details = stored.word_details
    /\ returned'.op = "interpret_phrase" => got = stored

\* a call of interpret_phrase or format_subtitle_line, seen as a step of the cache
CacheStep ==
    \* a key once written is never removed and never overwritten
    /\ \A k \in DOMAIN _cache : k \in DOMAIN _cache' /\ _cache'[k] = _cache[k]
    \* a lookup of a stored key returns what is stored and calls nothing
    /\ CleanText(returned'.arg) # <<>> /\ KeyLookedUp \in DOMAIN _cache =>
           /\ SameInterpretation(Interpreted, _cache[KeyLookedUp])
           /\ calls' = calls /\ _cache' = _cache
    \* a lookup of a key not stored calls once and stores what came of it, the
    \* fallback of a failed call as well
    /\ CleanText(returned'.arg) # <<>> /\ KeyLookedUp \notin DOMAIN _cache =>
           /\ Len(calls') = Len(calls) + 1
           /\ DOMAIN _cache' = DOMAIN _cache \cup {KeyLookedUp}
           /\ SameInterpretation(Interpreted, _cache'[KeyLookedUp])
           /\ calls'[Len(calls')].reply = "error" =>
                  IsDegraded(_cache'[KeyLookedUp], CleanText(returned'.arg))
    \* a lookup of a blank text leaves the cache as it is
    /\ CleanText(returned'.arg) = <<>> => _cache' = _cache /\ calls' = calls

\* C27: over any sequence of interpret_phrase calls on one ChineseEnhancer a cache
\* key (mode, cleaned text) is written at most once and never overwritten or
\* removed; every later lookup of the key returns the stored interpretation
\* without a call of the collaborator, the degraded fallback of a failed call
\* included; and a lookup of a blank text leaves the cache unchanged.
C27_CacheWrittenOncePerKey == [][CacheStep]_vars

\* the text ab was looked up after a call for another text that itself came after
\* the failed call for ab: the fallback stored for ab was returned without a call
C27_Witness ==
    /\ returned.op = "interpret_phrase"
    /\ returned.arg = <<"a", "b">>
    /\ Len(calls) = 2
    /\ calls[1] = [phrase |-> <<"a", "b">>, reply |-> "error"]
    /\ calls[2].phrase = <<"a", "b", "a">>
    /\ returned.value = Fallback(<<"a", "b">>, output_format = "learn")

(***************************************************************************)
(* Output-path run: enhance_srt on input paths of several shapes, with and *)
(* without an output path given.                                           *)
(***************************************************************************)
MySongSrt == <<"m", "y", ".", "s", "o", "n", "g", ".", "s", "r", "t">>
DirFileSrt == <<"d", ".", "x", "/", "f", "i", "l", "e", ".", "s", "r", "t">>
OutSrt == <<"o", "u", "t", ".", "s", "r", "t">>

\* input paths: a plain name, a stem with a dot, a directory with a dot
PathPool == {FileSrt, MySongSrt, DirFileSrt}

\* input files: empty, or one block
PathFiles ==
    {<<>>,
     <<[index |-> <<"1">>, stamps |-> Stamp1 \o Arrow \o Stamp2, text |-> <<<<"a">>>>]>>}

InitPaths ==
    /\ pc = "start"
    /\ srt_path \in PathPool
    /\ output_path \in {None, OutSrt}
    /\ file_blocks \in PathFiles
    /\ content = FileOfBlocks(file_blocks)
    /\ reachable \in BOOLEAN
    /\ output_format \in OutputFormat
    /\ _cache = <<>>
    /\ calls = <<>>
    /\ returned = NoReturn
    /\ unique_phrases = {}
    /\ todo = {}
    /\ enhanced_entries = <<>>
    /\ output = NoFile
    /\ entries = <<>>
    /\ segments = <<>>
    /\ word_highlight = FALSE
    /\ f = <<>>
    /\ seconds = 0
    /\ time_str = <<>>
    /\ decoded = Fail
    /\ NoTranscriber
    /\ argv = NoExpected
    /\ expected_words = NoExpected
    /\ results = NoReport
    /\ shown = <<>>

NextPaths == NextEnhance

SpecPaths == InitPaths /\ [][NextPaths]_vars

(***************************************************************************)
(* Properties of the output-path run.                                      *)
(***************************************************************************)
\* <stem> of a path <stem>.<ext>: the path up to its last dot
StemOf(path) == SubSeq(path, 1, Max(Positions(path, Dot)) - 1)

\* the suffix a mode is said to add
ModeSuffix(fmt) ==
    <<".">> \o (IF fmt = "full" THEN <<"e", "n", "h", "a", "n", "c", "e", "d">>
                ELSE FormatValue(fmt)) \o <<".", "s", "r", "t">>

\* C22: with no output path given, enhance_srt writes <stem>.<ext> to
\* <stem>.enhanced.srt, <stem>.emoji.srt or <stem>.learn.srt according to the
\* mode, also when the stem has dots in it.
C22_OutputPathKeepsStem ==
    pc = "done" /\ output_path = None =>
        output.path = StemOf(srt_path) \o ModeSuffix(output_format)

(***************************************************************************)
(* Subtitle-reading run: enhance._parse_srt on a file of blocks, each an   *)
(* index line, a timestamp line and one or more text lines.                *)
(***************************************************************************)
Stamps12 == Stamp1 \o Arrow \o Stamp2

\* blocks: one text line; an index with a leading zero and a highlighted run; two
\* text lines; a text line of digits; a text line with an arrow in it
ReadPool ==
    {[index |-> <<"1">>, stamps |-> Stamps12, text |-> <<<<"a", "b">>>>],
     [index |-> <<"0", "7">>, stamps |-> Stamps12,
      text |-> <<FontOpen \o <<"a">> \o FontClose \o <<"b">>>>],
     [index |-> <<"3">>, stamps |-> Stamps12, text |-> <<<<"a">>, <<"b", "c">>>>],
     [index |-> <<"4">>, stamps |-> Stamps12, text |-> <<<<"1", "2">>>>],
     [index |-> <<"5">>, stamps |-> Stamps12, text |-> <<<<"a", "-", "-", ">", "b">>>>],
     [index |-> <<"1", "0">>, stamps |-> Stamp1Dot \o Arrow \o Stamp2Dot,
      text |-> <<<<"a">>, <<"2">>>>],
     [index |-> <<"1", "1">>, stamps |-> Stamps12, text |-> <<<<"c", " ", "d">>>>]}

InitRead ==
    /\ pc = "start"
    /\ \E n \in 0..MaxSubs : file_blocks \in [1..n -> ReadPool]
    /\ content = FileOfBlocks(file_blocks)
    /\ entries = <<>>
    /\ segments = <<>>
    /\ word_highlight = FALSE
    /\ f = <<>>
    /\ seconds = 0
    /\ time_str = <<>>
    /\ decoded = Fail
    /\ NoTranscriber
    /\ argv = NoExpected
    /\ expected_words = NoExpected
    /\ results = NoReport
    /\ shown = <<>>
    /\ NoEnhancer

\* a call of enhance._parse_srt
ParseSrtContent ==
    /\ pc = "start"
    /\ entries' = _parse_srt(content)
    /\ pc' = "parsed"
    /\ UNCHANGED <<transcriberVars,
                   segments, word_highlight, f, file_blocks, content, codecVars,
                   validateVars, enhanceVars>>

NextRead == ParseSrtContent

SpecRead == InitRead /\ [][NextRead]_vars

(***************************************************************************)
(* Properties of the subtitle-reading run.                                 *)
(***************************************************************************)
\* C24: for a file of N blocks separated by blank lines, each an all-digit index
\* line, a timestamp line with --> in it and one or more text lines, _parse_srt
\* returns N entries in file order, each with the integer of the index line, the
\* timestamp line and the text lines concatenated, highlight markup kept; an empty
\* file gives no entry.
C24_OneEntryPerBlock ==
    pc = "parsed" =>
        /\ Len(entries) = Len(file_blocks)
        /\ \A i \in 1..Len(entries) :
              /\ entries[i].keys = {"index", "timestamp", "text"}
              /\ entries[i].index = DigitsVal(file_blocks[i].index)
              /\ entries[i].timestamp = file_blocks[i].stamps
              /\ entries[i].text = Concat(file_blocks[i].text)

(***************************************************************************)
(* Transcription run: Transcriber.transcribe on an audio path that exists  *)
(* or not, then save_lrc on the segments it returned.                      *)
(***************************************************************************)
MaxResult == 2      \* segments of the ASR result

Ms(n) == n * SubMs

\* segments of an ASR result: starts at 0, inside a minute, just below, at and
\* just above the middle of the last hundredth of a minute, at the last
\* millisecond of the second minute, and beyond an hour and a half
AsrSegments ==
    {[start |-> Ms(0), end |-> Ms(2000), text |-> <<" ", "a">>, words |-> <<>>],
     [start |-> Ms(5120), end |-> Ms(6000), text |-> <<"a", " ", "b">>,
      words |-> <<[start |-> Ms(5120), end |-> Ms(5500), word |-> <<"a">>]>>],
     [start |-> Ms(59994), end |-> Ms(61000), text |-> <<"a">>, words |-> <<>>],
     [start |-> Ms(59995), end |-> Ms(61000), text |-> <<"a">>, words |-> <<>>],
     [start |-> Ms(59995) + 1, end |-> Ms(61000), text |-> <<"a">>, words |-> <<>>],
     [start |-> Ms(119999), end |-> Ms(121000), text |-> <<"b">>, words |-> <<>>],
     [start |-> Ms(6001500), end |-> Ms(6002000), text |-> <<"b">>, words |-> <<>>]}

InitTranscribe ==
    /\ pc = "ready"
    /\ config \in [refine_timestamps : BOOLEAN, word_level : BOOLEAN]
    /\ audio_exists \in BOOLEAN
    /\ _model = NotLoaded
    /\ asr_calls = <<>>
    /\ lrc = <<>>
    /\ segments = <<>>
    /\ word_highlight = FALSE
    /\ f = <<>>
    /\ file_blocks = <<>>
    /\ content = <<>>
    /\ entries = <<>>
    /\ seconds = 0
    /\ time_str = <<>>
    /\ decoded = Fail
    /\ argv = NoExpected
    /\ expected_words = NoExpected
    /\ results = NoReport
    /\ shown = <<>>
    /\ NoEnhancer

\* transcribe loading the model before it looks at the path
TranscribeLoadingFirst(result) ==
    /\ pc = "ready"
    /\ _model' = "loaded"
    /\ IF ~audio_exists
       THEN /\ pc' = "FileNotFoundError"
            /\ UNCHANGED <<asr_calls, segments>>
       ELSE /\ asr_calls' = asr_calls \o AsrCalls(config.refine_timestamps)
            /\ segments' = [i \in 1..Len(result) |->
                               ConvertSegment(result[i], config.word_level)]
            /\ pc' = "transcribed"
    /\ UNCHANGED <<config, audio_exists, lrc, word_highlight, f, file_blocks, content,
                   entries, codecVars, validateVars, enhanceVars>>

\* Transcriber.transcribe, result being what the ASR model returns if it is called
Transcribe(result) ==
    /\ pc = "ready"
    /\ IF ~audio_exists
       THEN /\ pc' = "FileNotFoundError"
            /\ UNCHANGED <<_model, asr_calls, segments>>
       ELSE /\ _model' = "loaded"
            /\ asr_calls' = asr_calls \o AsrCalls(config.refine_timestamps)
            /\ segments' = [i \in 1..Len(result) |->
                               ConvertSegment(result[i], config.word_level)]
            /\ pc' = "transcribed"
    /\ UNCHANGED <<config, audio_exists, lrc, word_highlight, f, file_blocks, content,
                   entries, codecVars, validateVars, enhanceVars>>

\* Transcriber.save_lrc on the segments transcribe returned
SaveLrc(ups) ==
    /\ pc = "transcribed"
    /\ lrc' = save_lrc(segments, ups)
    /\ pc' = "lrc"
    /\ UNCHANGED <<config, _model, audio_exists, asr_calls, srtVars, codecVars,
                   validateVars, enhanceVars>>

NextTranscribe ==
    \/ \E n \in 0..MaxResult : \E result \in [1..n -> AsrSegments] : Transcribe(result)
    \/ \E ups \in [1..Len(segments) -> BOOLEAN] : SaveLrc(ups)

SpecTranscribe == InitTranscribe /\ [][NextTranscribe]_vars

(***************************************************************************)
(* Properties of the transcription run.                                    *)
(***************************************************************************)
\* C25: transcribe on an audio path that does not exist raises FileNotFoundError
\* at once and changes nothing: the model is not loaded and not called, no
\* segment is returned, no file is written, and nothing is tried again.
C25_MissingAudioChangesNothing ==
    /\ [](pc = "FileNotFoundError" =>
              /\ ~audio_exists
              /\ _model = NotLoaded /\ asr_calls = <<>>
              /\ segments = <<>> /\ lrc = <<>> /\ f = <<>> /\ output = NoFile)
    /\ [][pc = "ready" /\ ~audio_exists =>
              /\ pc' = "FileNotFoundError"
              /\ UNCHANGED <<_model, asr_calls, segments, lrc, f, output>>]_vars
    /\ [][pc # "FileNotFoundError"]_vars

\* transcribe has raised FileNotFoundError on a Transcriber set to refine
C25_Witness ==
    /\ pc = "FileNotFoundError"
    /\ ~audio_exists
    /\ config.refine_timestamps
    /\ _model = NotLoaded

\* the fields of a line [MM:SS.ss]text of an LRC file
LrcColon(line) == Find(line, <<":">>, 1)
LrcMM(line) == DigitsVal(SubSeq(line, 2, LrcColon(line) - 1))
LrcSS(line) == DigitsVal(SubSeq(line, LrcColon(line) + 1, LrcColon(line) + 2))
LrcHundredths(line) == DigitsVal(SubSeq(line, LrcColon(line) + 4, LrcColon(line) + 5))
LrcText(line) == SubSeq(line, LrcColon(line) + 7, Len(line))
HasLrcForm(line) ==
    LET c == LrcColon(line)
    IN  /\ c >= 4 /\ Len(line) >= c + 7
        /\ line[1] = "[" /\ line[c + 3] = "." /\ line[c + 6] = "]"
        /\ AllDigits(SubSeq(line, 2, c - 1))
        /\ AllDigits(SubSeq(line, c + 1, c + 2))
        /\ AllDigits(SubSeq(line, c + 4, c + 5))

\* C30: save_lrc writes one line per segment in input order, made of the segment's
\* start and text only: [MM:SS.ss] and the text, with MM = floor(start / 60) and
\* the seconds field SS.ss below 60.00.
C30_LrcSecondsBelowSixty ==
    pc = "lrc" =>
        /\ Len(lrc) = Len(segments)
        /\ \A i \in 1..Len(lrc) :
              /\ HasLrcForm(lrc[i])
              /\ LrcText(lrc[i]) = segments[i].text \o NL
              /\ LrcMM(lrc[i]) = segments[i].start \div (60 * TicksPerSec)
              /\ 100 * LrcSS(lrc[i]) + LrcHundredths(lrc[i]) < 6000

(***************************************************************************)
(* Back-to-back run: validate_format on entries that touch, among them     *)
(* entries of no duration, and one that overlaps.                          *)
(***************************************************************************)
MaxTouch == 3       \* entries of the back-to-back run

\* (start, end) in seconds and text: three that follow one another without a gap,
\* the middle one of no duration, one more after them, and one that overlaps
TouchPool ==
    {<<0, 2 * TicksPerSec, <<"a">>>>,
     <<2 * TicksPerSec, 2 * TicksPerSec, <<"a">>>>,
     <<2 * TicksPerSec, 3 * TicksPerSec, <<"a">>>>,
     <<3 * TicksPerSec, 5 * TicksPerSec, <<"a">>>>,
     <<TicksPerSec, 3 * TicksPerSec, <<"a">>>>}

InitTouch ==
    /\ pc = "parsed"
    /\ \E n \in 0..MaxTouch : \E es \in [1..n -> TouchPool] :
           entries = [i \in 1..n |-> SRTEntry(i, es[i])]
    /\ expected_words \in TimedExpectedPool
    /\ argv = NoExpected
    /\ results = NoReport
    /\ shown = <<>>
    /\ segments = <<>>
    /\ word_highlight = FALSE
    /\ f = <<>>
    /\ file_blocks = <<>>
    /\ content = <<>>
    /\ seconds = 0
    /\ time_str = <<>>
    /\ decoded = Fail
    /\ NoTranscriber
    /\ NoEnhancer

NextTouch == ValidateFormat \/ ShowIssues

SpecTouch == InitTouch /\ [][NextTouch]_vars

(***************************************************************************)
(* Properties of the back-to-back run.                                     *)
(***************************************************************************)
\* every entry has start <= end and ends no later than the next one starts
BackToBack ==
    /\ \A i \in 1..Len(entries) : entries[i].start <= entries[i].end
    /\ \A i \in 1..(Len(entries) - 1) : entries[i].end <= entries[i + 1].start

\* C28: entries that merely touch are clean: for a list in which every entry has
\* start <= end and ends no later than the next one starts, equality allowed, the
\* report has neither an OVERLAPPING_ENTRIES nor a NON_SEQUENTIAL issue.
C28_TouchingEntriesAreClean ==
    Validated /\ BackToBack =>
        /\ IssuesOfType(results, "OVERLAPPING_ENTRIES") = <<>>
        /\ IssuesOfType(results, "NON_SEQUENTIAL") = <<>>
        /\ pc = "shown" => shown = <<>>

\* three entries, each ending exactly where the next starts, the middle one of no
\* duration, were validated
C28_Witness ==
    /\ Validated
    /\ BackToBack
    /\ Len(entries) = 3
    /\ \A i \in 1..2 : entries[i].end = entries[i + 1].start
    /\ entries[2].start = entries[2].end
    /\ results.num_entries = 3

====
